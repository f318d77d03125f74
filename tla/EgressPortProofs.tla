-------------------------- MODULE EgressPortProofs --------------------------
(***************************************************************************)
(* The egress port, for every set of gates, schedule, packet length, clock *)
(* rate and buffer size.                                                   *)
(***************************************************************************)
EXTENDS EgressPort, GateControllerProofs

-----------------------------------------------------------------------------
(* Types *)

\* The tick finds an entry to apply: the schedule that it may swap in has one.
NextHasEntries == nextSchedule # <<>>

TypeInv == TypeOK /\ NextHasEntries

LEMMA InitTypeInv == Init => TypeInv
  <1> SUFFICES ASSUME Init PROVE TypeInv
    OBVIOUS
  <1>1. ControllerInit /\ QueuingInit
    BY DEF Init
  <1>2. <<>> \in Schedule /\ InitialSchedules \subseteq Schedule
    BY SchedulesAssumption, EmptySeq DEF Schedule
  <1>3. onHold = FALSE
    BY <1>1, PlainAssumption DEF ControllerInit, HoldsFirstEntry
  <1>4. ControllerTypeOK
    BY <1>1, <1>2, <1>3 DEF ControllerInit, ControllerTypeOK
  <1>5. NextHasEntries
    BY <1>1, NonEmptyAssumption DEF ControllerInit, NextHasEntries
  <1>6. queue \in [Gate -> Seq(Nat)]
    BY <1>1, EmptySeq DEF QueuingInit
  <1>7. QueuingTypeOK
    BY <1>1, <1>6, BufferCapacityAssumption DEF QueuingInit, QueuingTypeOK
  <1>8. QED
    BY <1>4, <1>5, <1>7, MaxArrivalsAssumption DEF Init, TypeInv, TypeOK, NoFrame

\* A tick keeps the controller's types, the index in range among them.
LEMMA TickEntryType ==
  ASSUME ControllerTypeOK, NextHasEntries, TickEntry
  PROVE  ControllerTypeOK' /\ NextHasEntries'
  <1> DEFINE current == TickSchedule
             next == TickNextSchedule
  <1>1. current \in Schedule /\ current # <<>>
    <2>1. CASE SwapsSchedule
      BY <2>1 DEF ControllerTypeOK, NextHasEntries, SwapsSchedule, TickSchedule
    <2>2. CASE ~SwapsSchedule
      BY <2>2 DEF ControllerTypeOK, TickEntry, TickSchedule, IsEmpty
    <2>3. QED
      BY <2>1, <2>2
  <1>2. next \in Schedule \cup {NoSchedule} /\ next # <<>>
    <2>1. NoSchedule # <<>>
      BY NoScheduleAssumption, EmptySeq DEF Schedule
    <2>2. QED
      BY <2>1 DEF ControllerTypeOK, NextHasEntries, TickNextSchedule
  <1>3. Len(current) \in Nat \ {0}
    BY <1>1, EmptySeq DEF Schedule
  <1>4. scheduleIndex \in 0 .. Len(current) - 1
    <2>1. CASE scheduleIndex = 0
      BY <2>1, <1>3
    <2>2. CASE scheduleIndex # 0
      BY <2>2, <1>3 DEF ControllerTypeOK, TickSchedule, SwapsSchedule
    <2>3. QED
      BY <2>1, <2>2
  <1>5. current[scheduleIndex + 1] \in Entry
    <2>1. scheduleIndex + 1 \in 1 .. Len(current)
      BY <1>3, <1>4
    <2>2. QED
      BY <2>1, <1>1, ElementOfSeq DEF Schedule
  <1>6. /\ Duration(current, scheduleIndex) \in Nat
        /\ Object(current, scheduleIndex) \in SUBSET Gate
    BY <1>5, ClockRateAssumption DEF Duration, Object, Entry
  <1>7. (scheduleIndex + 1) % Len(current) \in 0 .. Len(current) - 1
    BY <1>3, <1>4
  <1>8. /\ currentSchedule' = current
        /\ nextSchedule' = next
        /\ gateOpen' = Object(current, scheduleIndex)
        /\ untilTick' = Duration(current, scheduleIndex)
        /\ sinceLastChange' = 0
        /\ scheduleIndex' = (scheduleIndex + 1) % Len(current)
    BY DEF TickEntry, NextIndex
  <1>9. holdRequests' \in SUBSET Nat
    BY PlainAssumption DEF TickEntry, ControllerTypeOK
  <1>10. onHold' \in BOOLEAN /\ failed' \in BOOLEAN
    <2>1. onHold' = (onHold /\ ~ReleaseNeeded(Object(current, scheduleIndex)))
      BY PlainAssumption DEF TickEntry
    <2>2. failed' = FALSE
      BY PlainAssumption DEF TickEntry
    <2>3. QED
      BY <2>1, <2>2, Zenon
  <1>11. ControllerTypeOK'
    BY <1>1, <1>2, <1>3, <1>6, <1>7, <1>8, <1>9, <1>10 DEF ControllerTypeOK
  <1>12. NextHasEntries'
    BY <1>2, <1>8 DEF NextHasEntries
  <1>13. QED
    BY <1>11, <1>12

\* The queuing network's part: every handler keeps the types.
LEMMA QueueEventType ==
  ASSUME QueuingTypeOK, NEW g \in Gate, QueueHandleRequestPacket(g)
  PROVE  QueuingTypeOK'
  <1>1. queue[g] \in Seq(Nat) /\ queue[g] # <<>>
    BY DEF QueuingTypeOK, QueueHandleRequestPacket, QueueIsEmpty
  <1>2. Head(queue[g]) \in Nat /\ Tail(queue[g]) \in Seq(Nat)
    BY <1>1, HeadTailProperties
  <1>3. queue' \in [Gate -> Seq(Nat)] /\ availableBufferCapacity' \in [Gate -> Nat]
    BY <1>2 DEF QueuingTypeOK, QueueHandleRequestPacket, Dequeue
  <1>4. inTransit' \in SUBSET Transit
    BY <1>2 DEF QueuingTypeOK, QueueHandleRequestPacket, Transit, Hop
  <1>5. QED
    BY <1>3, <1>4
       DEF QueuingTypeOK, QueueHandleRequestPacket, tsaAndGateVars, selectionVars

LEMMA EnqueueType ==
  ASSUME QueuingTypeOK, NEW g \in Gate, NEW bits \in Nat, Enqueue(g, bits)
  PROVE  QueuingTypeOK'
  <1>1. queue' \in [Gate -> Seq(Nat)] /\ availableBufferCapacity' \in [Gate -> Nat]
    <2>1. CASE availableBufferCapacity[g] >= bits
      <3>1. Append(queue[g], bits) \in Seq(Nat)
        BY AppendProperties DEF QueuingTypeOK
      <3>2. availableBufferCapacity[g] - bits \in Nat
        BY <2>1 DEF QueuingTypeOK
      <3>3. QED
        BY <2>1, <3>1, <3>2 DEF QueuingTypeOK, Enqueue
    <2>2. CASE ~(availableBufferCapacity[g] >= bits)
      BY <2>2 DEF QueuingTypeOK, Enqueue
    <2>3. QED
      BY <2>1, <2>2
  <1>2. QED
    BY <1>1 DEF QueuingTypeOK, Enqueue, selectionVars

LEMMA GateEventType ==
  ASSUME QueuingTypeOK, NEW g \in Gate, GateEvent(g)
  PROVE  QueuingTypeOK'
  <1> USE DEF QueuingTypeOK, queueVars, selectionVars
  <1>1. CASE QueueHandleRequestPacket(g)
    BY <1>1, QueueEventType
  <1>2. CASE TSAHandleRequestPacket(g)
    BY <1>2 DEF TSAHandleRequestPacket
  <1>3. CASE TSAHandlePacketEnqueued(g)
    BY <1>3 DEF TSAHandlePacketEnqueued
  <1>4. CASE TSAHandleGateStateChanged(g)
    BY <1>4 DEF TSAHandleGateStateChanged
  <1>5. CASE GateHandleRequestPacket(g)
    BY <1>5 DEF GateHandleRequestPacket
  <1>6. CASE GateHandlePacketEnqueued(g)
    BY <1>6 DEF GateHandlePacketEnqueued
  <1>7. CASE GateHandleGateStateChanged(g)
    BY <1>7 DEF GateHandleGateStateChanged
  <1>8. QED
    BY <1>1, <1>2, <1>3, <1>4, <1>5, <1>6, <1>7 DEF GateEvent

LEMMA PacketEventType ==
  ASSUME QueuingTypeOK, NEW packet \in inTransit, PacketEvent(packet)
  PROVE  QueuingTypeOK'
  <1>1. packet \in Transit
    BY DEF QueuingTypeOK
  <1>2. ASSUME NEW from \in Hop, NEW to \in Hop, Forward(packet, from, to)
        PROVE  inTransit' \in SUBSET Transit
    BY <1>1, <1>2 DEF Forward, QueuingTypeOK, Transit
  <1>3. inTransit' \in SUBSET Transit
    BY <1>2 DEF PacketEvent, TSAHandlePacket, GateHandlePacket,
                SelectionHandlePacket, Hop
  <1>4. UNCHANGED <<queueVars, tsaAndGateVars, selectionRequest,
                    selectionPacketEnqueued, packetRequestedFromInputs>>
        /\ packetRequestedFromUs' \in {packetRequestedFromUs, FALSE}
    BY DEF PacketEvent, TSAHandlePacket, GateHandlePacket,
           SelectionHandlePacket, selectionVars
  <1>5. QED
    BY <1>3, <1>4 DEF QueuingTypeOK, queueVars, tsaAndGateVars

LEMMA SelectionEventType ==
  ASSUME QueuingTypeOK, SelectionEvent
  PROVE  QueuingTypeOK'
  <1>1. ASSUME SchedulePacket
        PROVE  gateRequest' \in SUBSET Gate /\ packetRequestedFromInputs' \in BOOLEAN
    BY <1>1 DEF SchedulePacket, QueuingTypeOK
  <1>2. CASE SelectionHandleRequestPacket
    BY <1>1, <1>2 DEF SelectionHandleRequestPacket, QueuingTypeOK, queueVars
  <1>3. CASE SelectionHandlePacketEnqueued
    BY <1>1, <1>3 DEF SelectionHandlePacketEnqueued, QueuingTypeOK, queueVars
  <1>4. QED
    BY <1>2, <1>3 DEF SelectionEvent

\* One step of the port, action by action.
LEMMA StepTypeInv == TypeInv /\ [Next]_vars => TypeInv'
  <1> SUFFICES ASSUME TypeInv, [Next]_vars PROVE TypeInv'
    OBVIOUS
  <1> USE DEF TypeInv, TypeOK
  <1>1. CASE ControllerTick
    BY <1>1, TickEntryType
       DEF ControllerTick, SetGateStates, macVars, QueuingTypeOK,
           ControllerTypeOK, queueVars, selectionVars
  <1>2. ASSUME NEW g \in Gate, GateEvent(g) PROVE TypeInv'
    BY <1>2, GateEventType
       DEF GateEvent, controllerVars, macVars, ControllerTypeOK, NextHasEntries
  <1>3. ASSUME NEW packet \in inTransit, PacketEvent(packet) PROVE TypeInv'
    BY <1>3, PacketEventType
       DEF PacketEvent, controllerVars, macVars, ControllerTypeOK, NextHasEntries
  <1>4. ASSUME NEW packet \in inTransit, MacHandleUpperPacket(packet) PROVE TypeInv'
    <2>1. packet.gate \in Gate /\ FrameTime(packet.bits) \in Nat
      BY OverheadAssumption, WireAssumption DEF QueuingTypeOK, Transit, FrameTime
    <2>2. QED
      BY <1>4, <2>1
         DEF MacHandleUpperPacket, controllerVars, queueVars, tsaAndGateVars,
             selectionVars, ControllerTypeOK, QueuingTypeOK, NextHasEntries
  <1>5. CASE SelectionEvent
    BY <1>5, SelectionEventType
       DEF SelectionEvent, controllerVars, macVars, ControllerTypeOK, NextHasEntries
  <1>6. CASE MacHandleEndTxPeriod
    BY <1>6, WireAssumption
       DEF MacHandleEndTxPeriod, controllerVars, queuingVars, queueVars,
           tsaAndGateVars, selectionVars, ControllerTypeOK, QueuingTypeOK,
           NextHasEntries
  <1>7. CASE MacHandleEndIFGPeriod
    BY <1>7, ZenonT(30)
       DEF MacHandleEndIFGPeriod, RequestNextFrame, RequestPacket,
           controllerVars, queuingVars, queueVars, tsaAndGateVars,
           selectionVars, ControllerTypeOK, QueuingTypeOK, NextHasEntries
  <1>8. CASE Elapse
    BY <1>8, SMTT(30)
       DEF Elapse, InstantOver, Priority0Quiet, ControllerElapse,
           ControllerQuiet, queuingVars, queueVars, tsaAndGateVars,
           selectionVars, ControllerTypeOK, QueuingTypeOK, NextHasEntries, Never
  <1>9. ASSUME NEW g \in Gate, NEW bits \in PacketSizes, Arrive(g, bits)
        PROVE  TypeInv'
    BY <1>9, EnqueueType, PacketSizesAssumption, MaxArrivalsAssumption
       DEF Arrive, controllerVars, macVars, ControllerTypeOK, NextHasEntries
  <1>10. ASSUME NEW s \in SwapSchedules, SwapSchedule(s) PROVE TypeInv'
    <2>1. s \in Schedule /\ s # <<>>
      BY SchedulesAssumption, NonEmptyAssumption
    <2>2. QED
      BY <1>10, <2>1
         DEF SwapSchedule, LoadSchedule, macVars, queuingVars, queueVars,
             tsaAndGateVars, selectionVars, ControllerTypeOK, QueuingTypeOK,
             NextHasEntries
  <1>11. CASE UNCHANGED vars
    BY <1>11
       DEF vars, controllerVars, macVars, queuingVars, queueVars,
           tsaAndGateVars, selectionVars, ControllerTypeOK, QueuingTypeOK,
           NextHasEntries
  <1>12. QED
    BY <1>1, <1>2, <1>3, <1>4, <1>5, <1>6, <1>7, <1>8, <1>9, <1>10, <1>11
       DEF Next, EventLoop

\* Every state of a port has the types its variables are declared with,
\* whatever its gates, schedules, packets and buffers are.
THEOREM TypeCorrect == Spec => []TypeOK
  <1>1. Spec => []TypeInv
    BY InitTypeInv, StepTypeInv, PTL DEF Spec
  <1>2. TypeInv => TypeOK
    BY DEF TypeInv
  <1>3. QED
    BY <1>1, <1>2, PTL

-----------------------------------------------------------------------------
(***************************************************************************)
(* The request chain never trips one of the code's own checks.             *)
(*                                                                         *)
(* The inductive invariant follows one request of the MAC: it is asked     *)
(* for, it waits for a packet to become ready, it climbs from a gate to a  *)
(* queue, a packet comes down to the MAC, and the MAC is busy.  In every   *)
(* stage there is exactly one request or one packet on its way, and while  *)
(* it climbs, nothing can happen that would make the chosen gate empty:    *)
(* ticks and hold requests have been handled before the transmission       *)
(* selection took its turn, time does not pass, and packets only join the  *)
(* end of a queue.                                                         *)
(***************************************************************************)

NoRequest == [g \in Gate |-> NotScheduled]

NobodyAsked == gateRequest = {} /\ tsaRequest = NoRequest /\ queueRequest = NoRequest

Flags(request, us, inputs) ==
  /\ selectionRequest = request
  /\ packetRequestedFromUs = us
  /\ packetRequestedFromInputs = inputs

\* The MAC has asked, the transmission selection has not taken its turn.
Asked ==
  Flags(TRUE, FALSE, FALSE) /\ NobodyAsked /\ inTransit = {}
  /\ transmitState = "TX_IDLE"

\* No gate had a packet when it took its turn.
Waiting ==
  Flags(FALSE, TRUE, TRUE) /\ NobodyAsked /\ inTransit = {}
  /\ transmitState = "TX_IDLE"

\* Gate g was chosen; its request is at the gate, the TSA or the queue.
AtGate(g) ==
  gateRequest = {g} /\ tsaRequest = NoRequest /\ queueRequest = NoRequest

AtTSA(g) ==
  /\ gateRequest = {} /\ queueRequest = NoRequest
  /\ tsaRequest = [NoRequest EXCEPT ![g] = MaxTransferableBits(g)]

AtQueue(g) ==
  /\ gateRequest = {} /\ tsaRequest = NoRequest
  /\ queueRequest = [NoRequest EXCEPT ![g] = MaxTransferableBits(g)]

Climbing(g) ==
  /\ Flags(FALSE, TRUE, FALSE) /\ inTransit = {} /\ transmitState = "TX_IDLE"
  /\ ControllerQuiet /\ ~GateIsEmpty(g)
  /\ AtGate(g) \/ AtTSA(g) \/ AtQueue(g)

\* A packet has left its queue and has not reached the transmission selection.
Descending(packet) ==
  /\ Flags(FALSE, TRUE, FALSE) /\ NobodyAsked /\ transmitState = "TX_IDLE"
  /\ inTransit = {packet} /\ packet.to # "MAC"

\* It has left the transmission selection and has not reached the MAC.
Delivered(packet) ==
  /\ Flags(FALSE, FALSE, FALSE) /\ NobodyAsked /\ transmitState = "TX_IDLE"
  /\ inTransit = {packet} /\ packet.to = "MAC"

\* The MAC sends it and has not asked again.
Busy ==
  Flags(FALSE, FALSE, FALSE) /\ NobodyAsked /\ inTransit = {}
  /\ transmitState \in {"TRANSMITTING", "WAIT_IFG"}

Protocol ==
  \/ Asked
  \/ Waiting
  \/ \E g \in Gate : Climbing(g)
  \/ \E packet \in Transit : Descending(packet) \/ Delivered(packet)
  \/ Busy

ProtocolInv == TypeInv /\ Protocol

-----------------------------------------------------------------------------
\* A gate that may send has a packet whose request is distinguishable from no
\* request at all.
LEMMA ReadyGate ==
  ASSUME TypeInv, NEW g \in Gate, ~GateIsEmpty(g)
  PROVE  /\ queue[g] \in Seq(Nat) /\ queue[g] # <<>>
         /\ ~QueueIsEmpty(g, MaxTransferableBits(g))
         /\ MaxTransferableBits(g) # NotScheduled
  <1>1. queue[g] \in Seq(Nat)
    BY DEF TypeInv, TypeOK, QueuingTypeOK
  <1>2. ~QueueIsEmpty(g, MaxTransferableBits(g))
    BY DEF GateIsEmpty
  <1>3. queue[g] # <<>>
    BY <1>2 DEF QueueIsEmpty
  <1>4. Head(queue[g]) \in Nat
    BY <1>1, <1>3, HeadTailProperties
  <1>5. QueueIsEmpty(g, NotScheduled)
    BY <1>4, OverheadAssumption DEF QueueIsEmpty, NotScheduled
  <1>6. QED
    BY <1>1, <1>2, <1>3, <1>5

\* What a gate may send depends only on the controller and on the packet at
\* the head of its queue.
LEMMA StaysReady ==
  ASSUME NEW g \in Gate, ~GateIsEmpty(g), UNCHANGED controllerVars,
         queue'[g] # <<>>, Head(queue'[g]) = Head(queue[g])
  PROVE  ~GateIsEmpty(g)' /\ MaxTransferableBits(g)' = MaxTransferableBits(g)
  <1>1. MaxTransferableBits(g)' = MaxTransferableBits(g)
    BY DEF MaxTransferableBits, CalculateMaxBit, CurrentIndex,
           ClockTimeSinceLastChange, controllerVars
  <1>2. QED
    BY <1>1 DEF GateIsEmpty, PassesHold, QueueIsEmpty, controllerVars

\* A step that touches none of the variables of the chain keeps its stage,
\* provided that it does not disturb a request that climbs.
LEMMA KeepsStage ==
  ASSUME Protocol, UNCHANGED <<gateRequest, tsaRequest, queueRequest,
           selectionRequest, packetRequestedFromUs, packetRequestedFromInputs,
           inTransit, transmitState>>,
         \A g \in Gate : Climbing(g) =>
           /\ ControllerQuiet' /\ ~GateIsEmpty(g)'
           /\ MaxTransferableBits(g)' = MaxTransferableBits(g)
  PROVE  Protocol'
  <1> USE DEF NobodyAsked, NoRequest, Flags
  <1>1. CASE Asked
    BY <1>1 DEF Asked, Protocol
  <1>2. CASE Waiting
    BY <1>2 DEF Waiting, Protocol
  <1>3. ASSUME NEW g \in Gate, Climbing(g) PROVE Protocol'
    BY <1>3 DEF Climbing, AtGate, AtTSA, AtQueue, Protocol
  <1>4. ASSUME NEW packet \in Transit, Descending(packet) \/ Delivered(packet)
        PROVE  Protocol'
    BY <1>4 DEF Descending, Delivered, Protocol
  <1>5. CASE Busy
    BY <1>5 DEF Busy, Protocol
  <1>6. QED
    BY <1>1, <1>2, <1>3, <1>4, <1>5 DEF Protocol

\* The same for a step that changes neither the controller nor a queue's head.
LEMMA KeepsStageAndQueues ==
  ASSUME TypeInv, Protocol,
         UNCHANGED <<controllerVars, gateRequest, tsaRequest, queueRequest,
           selectionRequest, packetRequestedFromUs, packetRequestedFromInputs,
           inTransit, transmitState>>,
         \A g \in Gate : queue[g] # <<>> =>
           queue'[g] # <<>> /\ Head(queue'[g]) = Head(queue[g])
  PROVE  Protocol'
  <1>1. ASSUME NEW g \in Gate, Climbing(g)
        PROVE  /\ ControllerQuiet' /\ ~GateIsEmpty(g)'
               /\ MaxTransferableBits(g)' = MaxTransferableBits(g)
    <2>1. ~GateIsEmpty(g) /\ ControllerQuiet
      BY <1>1 DEF Climbing
    <2>2. queue[g] # <<>>
      BY <2>1, ReadyGate
    <2>3. ControllerQuiet'
      BY <2>1 DEF ControllerQuiet, controllerVars
    <2>4. QED
      BY <2>1, <2>2, <2>3, StaysReady
  <1>2. QED
    BY <1>1, KeepsStage

\* A request that climbs is a request in progress.
LEMMA ClimbingInProgress ==
  ASSUME TypeInv, NEW g \in Gate, Climbing(g)
  PROVE  ChainInProgress /\ ControllerQuiet
  <1>1. MaxTransferableBits(g) # NotScheduled
    BY ReadyGate DEF Climbing
  <1>2. QED
    BY <1>1 DEF Climbing, AtGate, AtTSA, AtQueue, NoRequest, ChainInProgress

-----------------------------------------------------------------------------
\* The events of queues, TSAs and gates.
LEMMA GateEventProtocol ==
  ASSUME TypeInv, Protocol, NEW h \in Gate, GateEvent(h)
  PROVE  Protocol'
  <1> USE DEF queueVars, selectionVars, tsaAndGateVars
  <1>1. UNCHANGED <<controllerVars, transmitState>>
    BY DEF GateEvent, macVars
  <1>2. CASE QueueHandleRequestPacket(h)
    <2>1. queueRequest[h] # NotScheduled
      BY <1>2 DEF QueueHandleRequestPacket
    <2>2. Climbing(h) /\ AtQueue(h)
      BY <2>1 DEF Protocol, Asked, Waiting, Climbing, AtGate, AtTSA, AtQueue,
                  Descending, Delivered, Busy, NobodyAsked, NoRequest
    <2>3. PICK packet \in Transit : inTransit' = {packet} /\ packet.to # "MAC"
      <3>1. queue[h] \in Seq(Nat) /\ queue[h] # <<>>
        BY <2>2, ReadyGate DEF Climbing
      <3>2. Head(queue[h]) \in Nat
        BY <3>1, HeadTailProperties
      <3>3. [to |-> "TSAlgorithm", gate |-> h, bits |-> Head(queue[h])] \in Transit
        BY <3>2 DEF Transit, Hop
      <3>4. QED
        BY <1>2, <2>2, <3>3 DEF QueueHandleRequestPacket, Climbing
    <2>4. Descending(packet)'
      BY <1>1, <1>2, <2>2, <2>3
         DEF QueueHandleRequestPacket, Climbing, AtQueue, Descending, Flags,
             NobodyAsked, NoRequest
    <2>5. QED
      BY <2>4 DEF Protocol
  <1>3. CASE TSAHandleRequestPacket(h)
    <2>1. tsaRequest[h] # NotScheduled
      BY <1>3 DEF TSAHandleRequestPacket
    <2>2. Climbing(h) /\ AtTSA(h)
      BY <2>1 DEF Protocol, Asked, Waiting, Climbing, AtGate, AtTSA, AtQueue,
                  Descending, Delivered, Busy, NobodyAsked, NoRequest
    <2>3. ~GateIsEmpty(h)' /\ MaxTransferableBits(h)' = MaxTransferableBits(h)
      BY <1>1, <1>3, <2>2, ReadyGate, StaysReady DEF TSAHandleRequestPacket, Climbing
    <2>4. AtQueue(h)'
      BY <1>3, <2>2, <2>3 DEF TSAHandleRequestPacket, AtTSA, AtQueue, NoRequest
    <2>5. Climbing(h)'
      BY <1>1, <1>3, <2>2, <2>3, <2>4
         DEF TSAHandleRequestPacket, Climbing, Flags, ControllerQuiet, controllerVars
    <2>6. QED
      BY <2>5 DEF Protocol
  <1>4. CASE GateHandleRequestPacket(h)
    <2>1. h \in gateRequest
      BY <1>4 DEF GateHandleRequestPacket
    <2>2. Climbing(h) /\ AtGate(h)
      BY <2>1 DEF Protocol, Asked, Waiting, Climbing, AtGate, AtTSA, AtQueue,
                  Descending, Delivered, Busy, NobodyAsked
    <2>3. ~GateIsEmpty(h)' /\ MaxTransferableBits(h)' = MaxTransferableBits(h)
      BY <1>1, <1>4, <2>2, ReadyGate, StaysReady DEF GateHandleRequestPacket, Climbing
    <2>4. AtTSA(h)'
      BY <1>4, <2>2, <2>3 DEF GateHandleRequestPacket, AtGate, AtTSA, NoRequest
    <2>5. Climbing(h)'
      BY <1>1, <1>4, <2>2, <2>3, <2>4
         DEF GateHandleRequestPacket, Climbing, Flags, ControllerQuiet, controllerVars
    <2>6. QED
      BY <2>5 DEF Protocol
  <1>5. CASE TSAHandlePacketEnqueued(h)
    BY <1>1, <1>5, KeepsStageAndQueues DEF TSAHandlePacketEnqueued
  <1>6. CASE TSAHandleGateStateChanged(h)
    BY <1>1, <1>6, KeepsStageAndQueues DEF TSAHandleGateStateChanged
  <1>7. CASE GateHandlePacketEnqueued(h)
    BY <1>1, <1>7, KeepsStageAndQueues DEF GateHandlePacketEnqueued
  <1>8. CASE GateHandleGateStateChanged(h)
    BY <1>1, <1>8, KeepsStageAndQueues DEF GateHandleGateStateChanged
  <1>9. QED
    BY <1>2, <1>3, <1>4, <1>5, <1>6, <1>7, <1>8 DEF GateEvent

\* A packet on its way down.
LEMMA PacketEventProtocol ==
  ASSUME TypeInv, Protocol, NEW packet \in inTransit, PacketEvent(packet)
  PROVE  Protocol'
  <1>1. packet \in Transit /\ (Descending(packet) \/ Delivered(packet))
    BY DEF Protocol, Asked, Waiting, Climbing, Busy, Descending, Delivered,
           TypeInv, TypeOK, QueuingTypeOK
  <1>2. Descending(packet)
    BY <1>1 DEF PacketEvent, TSAHandlePacket, GateHandlePacket,
                SelectionHandlePacket, Forward, Delivered
  <1>3. UNCHANGED <<queueRequest, tsaRequest, gateRequest, selectionRequest,
                    packetRequestedFromInputs, transmitState>>
    BY DEF PacketEvent, TSAHandlePacket, GateHandlePacket,
           SelectionHandlePacket, queueVars, tsaAndGateVars, selectionVars, macVars
  <1>4. ASSUME NEW to \in {"TransmissionGate", "TransmissionSelection"},
               inTransit' = {[packet EXCEPT !.to = to]},
               packetRequestedFromUs' = packetRequestedFromUs
        PROVE  Protocol'
    <2>1. [packet EXCEPT !.to = to] \in Transit
      BY <1>1 DEF Transit, Hop
    <2>2. Descending([packet EXCEPT !.to = to])'
      BY <1>1, <1>2, <1>3, <1>4
         DEF Descending, Flags, NobodyAsked, NoRequest, Transit
    <2>3. QED
      BY <2>1, <2>2 DEF Protocol
  <1>5. CASE TSAHandlePacket(packet) \/ GateHandlePacket(packet)
    BY <1>2, <1>4, <1>5
       DEF TSAHandlePacket, GateHandlePacket, Forward, Descending, selectionVars
  <1>6. CASE SelectionHandlePacket(packet)
    <2>1. [packet EXCEPT !.to = "MAC"] \in Transit
      BY <1>1 DEF Transit, Hop
    <2>2. Delivered([packet EXCEPT !.to = "MAC"])'
      BY <1>1, <1>2, <1>3, <1>6
         DEF SelectionHandlePacket, Forward, Descending, Delivered, Flags,
             NobodyAsked, NoRequest, Transit
    <2>3. QED
      BY <2>1, <2>2 DEF Protocol
  <1>7. QED
    BY <1>5, <1>6 DEF PacketEvent

\* The transmission selection takes its turn.
LEMMA SelectionEventProtocol ==
  ASSUME TypeInv, Protocol, SelectionEvent
  PROVE  Protocol'
  <1>1. UNCHANGED <<controllerVars, queueRequest, tsaRequest, queue, inTransit,
                    transmitState>>
        /\ ControllerQuiet
    BY DEF SelectionEvent, SelectionTurn, Priority0Quiet, macVars, queueVars,
           SelectionHandleRequestPacket, SelectionHandlePacketEnqueued
  <1>2. ASSUME SchedulePacket, NobodyAsked, inTransit = {},
               transmitState = "TX_IDLE", selectionRequest' = FALSE,
               packetRequestedFromUs' = TRUE
        PROVE  Protocol'
    <2>1. CASE NothingToSelect /\ packetRequestedFromInputs' = TRUE
               /\ gateRequest' = gateRequest
      BY <1>1, <1>2, <2>1 DEF Protocol, Waiting, Flags, NobodyAsked, NoRequest
    <2>2. ASSUME NEW g \in Gate, Selects(g), packetRequestedFromInputs' = FALSE,
                 gateRequest' = gateRequest \cup {g}
          PROVE  Protocol'
      <3>1. ~GateIsEmpty(g)
        BY <2>2 DEF Selects
      <3>2. ~GateIsEmpty(g)'
        BY <1>1, <3>1, ReadyGate, StaysReady
      <3>3. Climbing(g)'
        BY <1>1, <1>2, <2>2, <3>2
           DEF Climbing, AtGate, Flags, NobodyAsked, NoRequest,
               ControllerQuiet, controllerVars
      <3>4. QED
        BY <3>3 DEF Protocol
    <2>3. QED
      BY <1>2, <2>1, <2>2 DEF SchedulePacket
  <1>3. CASE SelectionHandleRequestPacket
    <2>1. Asked
      BY <1>3 DEF SelectionHandleRequestPacket, Protocol, Waiting, Climbing,
                  Descending, Delivered, Busy, Flags
    <2>2. QED
      BY <1>2, <1>3, <2>1 DEF SelectionHandleRequestPacket, Asked
  <1>4. CASE SelectionHandlePacketEnqueued /\ packetRequestedFromInputs
    <2>1. Waiting
      BY <1>4 DEF Protocol, Asked, Climbing, Descending, Delivered, Busy, Flags
    <2>2. QED
      BY <1>2, <1>4, <2>1 DEF SelectionHandlePacketEnqueued, Waiting, Flags
  <1>5. CASE SelectionHandlePacketEnqueued /\ ~packetRequestedFromInputs
    BY <1>1, <1>5, KeepsStageAndQueues DEF SelectionHandlePacketEnqueued
  <1>6. QED
    BY <1>3, <1>4, <1>5 DEF SelectionEvent

\* A packet joins a queue behind those that wait.
LEMMA ArriveProtocol ==
  ASSUME TypeInv, Protocol, NEW h \in Gate, NEW bits \in PacketSizes,
         Arrive(h, bits)
  PROVE  Protocol'
  <1>1. ASSUME NEW g \in Gate, queue[g] # <<>>
        PROVE  queue'[g] # <<>> /\ Head(queue'[g]) = Head(queue[g])
    <2>1. queue \in [Gate -> Seq(Nat)] /\ queue[g] \in Seq(Nat) /\ bits \in Nat
      BY PacketSizesAssumption DEF TypeInv, TypeOK, QueuingTypeOK
    <2>2. queue'[g] = queue[g] \/ queue'[g] = Append(queue[g], bits)
      BY <2>1 DEF Arrive, Enqueue
    <2>3. Append(queue[g], bits) # <<>>
          /\ Head(Append(queue[g], bits)) = Head(queue[g])
      <3> DEFINE longer == Append(queue[g], bits)
      <3>1. Len(queue[g]) \in Nat \ {0}
        BY <1>1, <2>1, EmptySeq
      <3>2. longer \in Seq(Nat) /\ longer # <<>> /\ longer[1] = queue[g][1]
        <4>1. longer \in Seq(Nat) /\ longer # <<>>
              /\ \A i \in 1 .. Len(queue[g]) : longer[i] = queue[g][i]
          BY <2>1, AppendProperties, SMTT(30)
        <4>2. QED
          BY <3>1, <4>1
      <3>3. Head(longer) = longer[1] /\ Head(queue[g]) = queue[g][1]
        OBVIOUS
      <3>4. QED
        BY <3>2, <3>3
    <2>4. QED
      BY <1>1, <2>2, <2>3
  <1>2. UNCHANGED <<controllerVars, gateRequest, tsaRequest, queueRequest,
                    selectionRequest, packetRequestedFromUs,
                    packetRequestedFromInputs, inTransit, transmitState>>
    BY DEF Arrive, Enqueue, selectionVars, macVars
  <1>3. QED
    BY <1>1, <1>2, KeepsStageAndQueues

LEMMA StepProtocol == ProtocolInv /\ [Next]_vars => Protocol'
  <1> SUFFICES ASSUME TypeInv, Protocol, [Next]_vars PROVE Protocol'
    BY DEF ProtocolInv
  <1> USE DEF queuingVars, queueVars, tsaAndGateVars, selectionVars, macVars
  <1>1. CASE ControllerTick
    <2>1. \A g \in Gate : ~Climbing(g)
      BY <1>1 DEF ControllerTick, TickEntry, Climbing, ControllerQuiet
    <2>2. QED
      BY <1>1, <2>1, KeepsStage DEF ControllerTick, SetGateStates
  <1>2. ASSUME NEW g \in Gate, GateEvent(g) PROVE Protocol'
    BY <1>2, GateEventProtocol
  <1>3. ASSUME NEW packet \in inTransit, PacketEvent(packet) PROVE Protocol'
    BY <1>3, PacketEventProtocol
  <1>4. ASSUME NEW packet \in inTransit, MacHandleUpperPacket(packet) PROVE Protocol'
    <2>1. Delivered(packet)
      BY <1>4 DEF MacHandleUpperPacket, Protocol, Asked, Waiting, Climbing, Busy,
                  Descending, Delivered
    <2>2. Busy'
      BY <1>4, <2>1 DEF MacHandleUpperPacket, Delivered, Busy, Flags,
                        NobodyAsked, NoRequest
    <2>3. QED
      BY <2>2 DEF Protocol
  <1>5. CASE SelectionEvent
    BY <1>5, SelectionEventProtocol
  <1>6. CASE MacHandleEndTxPeriod \/ MacHandleEndIFGPeriod
    <2>1. Busy
      BY <1>6 DEF MacHandleEndTxPeriod, MacHandleEndIFGPeriod, Protocol, Asked,
                  Waiting, Climbing, Descending, Delivered
    <2>2. CASE MacHandleEndTxPeriod
      BY <2>1, <2>2 DEF MacHandleEndTxPeriod, Busy, Protocol, Flags, NobodyAsked, NoRequest
    <2>3. CASE MacHandleEndIFGPeriod
      BY <2>1, <2>3 DEF MacHandleEndIFGPeriod, RequestNextFrame, RequestPacket,
                        Busy, Asked, Protocol, Flags, NobodyAsked, NoRequest
    <2>4. QED
      BY <1>6, <2>2, <2>3
  <1>7. CASE Elapse
    <2>1. \A g \in Gate : ~Climbing(g)
      BY <1>7, ClimbingInProgress
         DEF Elapse, InstantOver, Priority0Quiet, QueuingQuiet
    <2>2. QED
      BY <1>7, <2>1, KeepsStage DEF Elapse
  <1>8. ASSUME NEW g \in Gate, NEW bits \in PacketSizes, Arrive(g, bits)
        PROVE  Protocol'
    BY <1>8, ArriveProtocol
  <1>9. ASSUME NEW s \in SwapSchedules, SwapSchedule(s) PROVE Protocol'
    <2>1. \A g \in Gate : ~Climbing(g)
      BY <1>9, ClimbingInProgress DEF SwapSchedule
    <2>2. QED
      BY <1>9, <2>1, KeepsStage DEF SwapSchedule
  <1>10. CASE UNCHANGED vars
    BY <1>10, KeepsStageAndQueues DEF vars
  <1>11. QED
    BY <1>1, <1>2, <1>3, <1>4, <1>5, <1>6, <1>7, <1>8, <1>9, <1>10
       DEF Next, EventLoop

LEMMA InitProtocol == Init => Protocol
  BY DEF Init, QueuingInit, Protocol, Asked, Flags, NobodyAsked, NoRequest

\* The stages of a request leave no check of the code a chance to fail.
LEMMA ProtocolSuffices == ProtocolInv => NoAssertionFails
  <1> SUFFICES ASSUME TypeInv, Protocol PROVE NoAssertionFails
    BY DEF ProtocolInv
  <1>1. ASSUME NEW g \in gateRequest PROVE ~GateIsEmpty(g)
    BY DEF Protocol, Asked, Waiting, Climbing, AtGate, AtTSA, AtQueue,
           Descending, Delivered, Busy, NobodyAsked
  <1>2. ASSUME NEW g \in Gate, queueRequest[g] # NotScheduled
        PROVE  ~QueueIsEmpty(g, queueRequest[g])
    <2>1. Climbing(g) /\ AtQueue(g)
      BY <1>2 DEF Protocol, Asked, Waiting, Climbing, AtGate, AtTSA, AtQueue,
                  Descending, Delivered, Busy, NobodyAsked, NoRequest
    <2>2. queueRequest[g] = MaxTransferableBits(g)
      BY <2>1 DEF AtQueue, NoRequest
    <2>3. QED
      BY <2>1, <2>2, ReadyGate DEF Climbing
  <1>3. ASSUME NEW p \in inTransit
        PROVE  /\ p.to = "TransmissionSelection" => packetRequestedFromUs
               /\ p.to = "MAC" => transmitState = "TX_IDLE"
    BY DEF Protocol, Asked, Waiting, Climbing, Descending, Delivered, Busy, Flags
  <1>4. selectionRequest => ~packetRequestedFromUs /\ ~packetRequestedFromInputs
    BY DEF Protocol, Asked, Waiting, Climbing, Descending, Delivered, Busy, Flags
  <1>5. QED
    BY <1>1, <1>2, <1>3, <1>4 DEF NoAssertionFails

LEMMA ProtocolHolds == Spec => []ProtocolInv
  <1>1. Init => ProtocolInv
    BY InitTypeInv, InitProtocol DEF ProtocolInv
  <1>2. ProtocolInv /\ [Next]_vars => ProtocolInv'
    BY StepTypeInv, StepProtocol DEF ProtocolInv
  <1>3. QED
    BY <1>1, <1>2, PTL DEF Spec

\* No ASSERT and no throw on the way of a request or a packet ever fails: for
\* all gates, schedules, clock rates, packets, buffers and orders of the
\* events of an instant.
THEOREM RequestChainIntegrity == Spec => []NoAssertionFails
  BY ProtocolHolds, ProtocolSuffices, PTL

-----------------------------------------------------------------------------
(***************************************************************************)
(* The request chain implements PortService: choosing a gate is the step   *)
(* that serves a packet, the end of its transmission the step that         *)
(* completes it, and all that lies between leaves the queues and the       *)
(* packet being served as they are.                                        *)
(***************************************************************************)

\* There is a frame on the wire only while the MAC transmits.
OnWire ==
  IF transmitState = "TRANSMITTING" THEN curTxFrame \in Gate ELSE curTxFrame = NoFrame

ServiceInv == ProtocolInv /\ OnWire

Waits == [g \in Gate |-> IF g \in Chosen THEN Tail(queue[g]) ELSE queue[g]]

Serving ==
  IF Chosen \cup Leaving # {} THEN CHOOSE g \in Chosen \cup Leaving : TRUE ELSE curTxFrame

LEMMA OneChosen ==
  ASSUME NEW T, NEW g, T = {g}
  PROVE  T # {} /\ (CHOOSE h \in T : TRUE) = g
  OBVIOUS

\* What a stage of the request says to the abstract port.
LEMMA StagesServe ==
  ASSUME TypeInv
  PROVE  /\ NobodyAsked /\ inTransit = {} =>
              Waits = queue /\ Serving = curTxFrame
         /\ \A g \in Gate : Climbing(g) =>
              /\ Waits = [queue EXCEPT ![g] = Tail(queue[g])] /\ Serving = g
              /\ Chosen = {g}
         /\ \A packet \in Transit : Descending(packet) \/ Delivered(packet) =>
              Waits = queue /\ Serving = packet.gate
  <1>1. queue \in [Gate -> Seq(Nat)]
    BY DEF TypeInv, TypeOK, QueuingTypeOK
  <1>2. ASSUME NobodyAsked PROVE Chosen = {} /\ Waits = queue
    <2>1. Chosen = {}
      BY <1>2 DEF NobodyAsked, NoRequest, Chosen
    <2>2. QED
      BY <1>1, <2>1 DEF Waits
  <1>3. ASSUME NobodyAsked, inTransit = {} PROVE Serving = curTxFrame
    BY <1>2, <1>3 DEF Serving, Leaving
  <1>4. ASSUME NEW g \in Gate, Climbing(g)
        PROVE  /\ Waits = [queue EXCEPT ![g] = Tail(queue[g])] /\ Serving = g
               /\ Chosen = {g}
    <2>1. MaxTransferableBits(g) # NotScheduled
      BY <1>4, ReadyGate DEF Climbing
    <2>2. Chosen = {g}
      BY <1>4, <2>1 DEF Climbing, AtGate, AtTSA, AtQueue, NoRequest, Chosen
    <2>3. Leaving = {}
      BY <1>4 DEF Climbing, Leaving
    <2>4. Serving = g
      BY <2>2, <2>3, OneChosen DEF Serving
    <2>5. Waits = [queue EXCEPT ![g] = Tail(queue[g])]
      BY <1>1, <2>2 DEF Waits
    <2>6. QED
      BY <2>2, <2>4, <2>5
  <1>5. ASSUME NEW packet \in Transit, Descending(packet) \/ Delivered(packet)
        PROVE  Waits = queue /\ Serving = packet.gate
    <2>1. NobodyAsked /\ inTransit = {packet}
      BY <1>5 DEF Descending, Delivered
    <2>2. Leaving = {packet.gate}
      BY <2>1 DEF Leaving
    <2>3. QED
      BY <1>2, <2>1, <2>2, OneChosen DEF Serving
  <1>6. QED
    BY <1>2, <1>3, <1>4, <1>5

LEMMA ServiceVariables ==
  /\ Service!vars = <<Waits, {g \in Gate : ~GateIsEmpty(g)}, Serving>>
  BY DEF Service!vars, Waits, Serving

\* A step that changes neither the waiting packets nor the one being served.
LEMMA NothingServed ==
  ASSUME UNCHANGED <<Waits, Serving>>
  PROVE  Service!Next
  BY DEF Waits, Serving, Service!Next, Service!ReadinessChanges

LEMMA ChainUntouched ==
  ASSUME UNCHANGED <<queue, gateRequest, tsaRequest, queueRequest, inTransit, curTxFrame>>
  PROVE  UNCHANGED <<Waits, Serving>>
  BY DEF Waits, Serving, Chosen, Leaving

\* A request climbs from one module to the next.
LEMMA GateEventServes ==
  ASSUME ServiceInv, NEW h \in Gate, GateEvent(h)
  PROVE  UNCHANGED <<Waits, Serving>>
  <1> USE DEF queueVars, selectionVars, tsaAndGateVars
  <1>1. TypeInv /\ Protocol /\ UNCHANGED curTxFrame
    BY DEF ServiceInv, ProtocolInv, GateEvent, macVars
  <1>2. /\ queueRequest = [g \in Gate |-> queueRequest[g]]
        /\ tsaRequest = [g \in Gate |-> tsaRequest[g]]
        /\ queue \in [Gate -> Seq(Nat)]
    BY <1>1 DEF TypeInv, TypeOK, QueuingTypeOK
  <1>3. ASSUME Chosen' = Chosen, UNCHANGED <<queue, inTransit>>
        PROVE  UNCHANGED <<Waits, Serving>>
    BY <1>1, <1>3 DEF Waits, Serving, Leaving
  <1>4. CASE QueueHandleRequestPacket(h)
    <2>1. queueRequest[h] # NotScheduled
      BY <1>4 DEF QueueHandleRequestPacket
    <2>2. Climbing(h) /\ AtQueue(h)
      BY <1>1, <2>1 DEF Protocol, Asked, Waiting, Climbing, AtGate, AtTSA, AtQueue,
                        Descending, Delivered, Busy, NobodyAsked, NoRequest
    <2>3. Waits = [queue EXCEPT ![h] = Tail(queue[h])] /\ Serving = h
      BY <1>1, <2>2, StagesServe
    <2>4. queue' = [queue EXCEPT ![h] = Tail(queue[h])]
      BY <1>4 DEF QueueHandleRequestPacket, Dequeue
    <2>5. Chosen' = {}
      <3>1. gateRequest' = {} /\ tsaRequest' = NoRequest /\ queueRequest' = NoRequest
        BY <1>4, <2>2 DEF QueueHandleRequestPacket, AtQueue, NoRequest
      <3>2. QED
        BY <3>1 DEF Chosen, NoRequest
    <2>6. Leaving' = {h}
      <3>1. inTransit' = {[to |-> "TSAlgorithm", gate |-> h, bits |-> Head(queue[h])]}
        BY <1>4, <2>2 DEF QueueHandleRequestPacket, Climbing
      <3>2. QED
        BY <3>1 DEF Leaving
    <2>7. Serving' = h
      BY <2>5, <2>6, OneChosen DEF Serving
    <2>8. Waits' = queue'
      <3>1. queue' = [g \in Gate |-> queue'[g]]
        BY <1>2, <2>4
      <3>2. QED
        BY <2>5, <3>1 DEF Waits
    <2>9. QED
      BY <2>3, <2>4, <2>7, <2>8
  <1>5. CASE TSAHandleRequestPacket(h)
    <2>1. Chosen' = Chosen
      BY <1>2, <1>5 DEF TSAHandleRequestPacket, Chosen
    <2>2. QED
      BY <1>3, <1>5, <2>1 DEF TSAHandleRequestPacket
  <1>6. CASE GateHandleRequestPacket(h)
    <2>1. MaxTransferableBits(h) # NotScheduled
      BY <1>1, <1>6, ReadyGate DEF GateHandleRequestPacket
    <2>2. Chosen' = Chosen
      BY <1>2, <1>6, <2>1 DEF GateHandleRequestPacket, Chosen
    <2>3. QED
      BY <1>3, <1>6, <2>2 DEF GateHandleRequestPacket
  <1>7. CASE TSAHandlePacketEnqueued(h)
    BY <1>1, <1>7, ChainUntouched DEF TSAHandlePacketEnqueued
  <1>8. CASE TSAHandleGateStateChanged(h)
    BY <1>1, <1>8, ChainUntouched DEF TSAHandleGateStateChanged
  <1>9. CASE GateHandlePacketEnqueued(h)
    BY <1>1, <1>9, ChainUntouched DEF GateHandlePacketEnqueued
  <1>10. CASE GateHandleGateStateChanged(h)
    BY <1>1, <1>10, ChainUntouched DEF GateHandleGateStateChanged
  <1>11. QED
    BY <1>4, <1>5, <1>6, <1>7, <1>8, <1>9, <1>10 DEF GateEvent

\* A packet keeps its gate on the way to the MAC and on the wire.
LEMMA PacketEventServes ==
  ASSUME ServiceInv, NEW packet \in inTransit,
         PacketEvent(packet) \/ MacHandleUpperPacket(packet)
  PROVE  UNCHANGED <<Waits, Serving>>
  <1>1. TypeInv /\ Protocol /\ packet \in Transit
    BY DEF ServiceInv, ProtocolInv, TypeInv, TypeOK, QueuingTypeOK
  <1>2. Descending(packet) \/ Delivered(packet)
    BY <1>1 DEF Protocol, Asked, Waiting, Climbing, Busy, Descending, Delivered
  <1>3. Waits = queue /\ Serving = packet.gate
    BY <1>1, <1>2, StagesServe
  <1>4. UNCHANGED <<queue, gateRequest, tsaRequest, queueRequest>>
    BY DEF PacketEvent, MacHandleUpperPacket, TSAHandlePacket, GateHandlePacket,
           SelectionHandlePacket, queueVars, tsaAndGateVars
  <1>5. Chosen' = {} /\ Chosen = {}
    BY <1>2, <1>4 DEF Chosen, Descending, Delivered, NobodyAsked, NoRequest
  <1>6. Waits' = Waits
    BY <1>4, <1>5 DEF Waits
  <1>7. CASE PacketEvent(packet)
    <2>1. PICK to \in Hop : inTransit' = (inTransit \ {packet}) \cup {[packet EXCEPT !.to = to]}
      BY <1>7 DEF PacketEvent, TSAHandlePacket, GateHandlePacket,
                  SelectionHandlePacket, Forward, Hop
    <2>2. inTransit' = {[packet EXCEPT !.to = to]} /\ [packet EXCEPT !.to = to].gate = packet.gate
      BY <1>1, <1>2, <2>1 DEF Descending, Delivered, Transit
    <2>3. Leaving' = {packet.gate}
      BY <2>2 DEF Leaving
    <2>4. Serving' = packet.gate
      BY <1>5, <2>3, OneChosen DEF Serving
    <2>5. QED
      BY <1>3, <1>6, <2>4
  <1>8. CASE MacHandleUpperPacket(packet)
    <2>1. inTransit' = {} /\ curTxFrame' = packet.gate
      BY <1>2, <1>8 DEF MacHandleUpperPacket, Descending, Delivered
    <2>2. Serving' = packet.gate
      BY <1>5, <2>1 DEF Serving, Leaving
    <2>3. QED
      BY <1>3, <1>6, <2>2
  <1>9. QED
    BY <1>7, <1>8

\* The transmission selection serves the packet at the head of the queue that
\* strict priority prefers, or none.
LEMMA SelectionServes ==
  ASSUME ServiceInv, SelectionEvent
  PROVE  Service!Next
  <1>1. TypeInv /\ Protocol /\ Protocol' /\ OnWire
    BY SelectionEventProtocol DEF ServiceInv, ProtocolInv
  <1>2. UNCHANGED <<controllerVars, queue, queueRequest, tsaRequest, inTransit,
                    transmitState, curTxFrame>>
    BY DEF SelectionEvent, macVars, queueVars,
           SelectionHandleRequestPacket, SelectionHandlePacketEnqueued
  <1>3. CASE gateRequest' = gateRequest
    BY <1>2, <1>3, ChainUntouched, NothingServed
  <1>4. ASSUME NEW g \in Gate, Selects(g), gateRequest' = gateRequest \cup {g},
               NobodyAsked, inTransit = {}, transmitState = "TX_IDLE"
        PROVE  Service!Next
    <2>1. Waits = queue /\ Serving = Service!Nobody
      BY <1>1, <1>4, StagesServe DEF OnWire, NoFrame, Service!Nobody
    <2>2. ~GateIsEmpty(g) /\ queue \in [Gate -> Seq(Nat)] /\ queue[g] # <<>>
      BY <1>1, <1>4, ReadyGate DEF Selects, TypeInv, TypeOK, QueuingTypeOK
    <2>3. Chosen' = {g}
      BY <1>2, <1>4 DEF Chosen, NobodyAsked, NoRequest
    <2>4. Serving' = g
      BY <1>2, <1>4, <2>3, OneChosen DEF Serving, Leaving
    <2>5. Waits' = [queue EXCEPT ![g] = Tail(queue[g])]
      BY <1>2, <2>2, <2>3 DEF Waits
    <2> DEFINE ready == {h \in Gate : ~GateIsEmpty(h)}
    <2>6. /\ g \in ready
          /\ g \in Express \/ ready \cap Express = {}
          /\ \A h \in ready : (h \in Express \/ g \notin Express) => h <= g
      BY <1>4 DEF Selects
    <2>7. Service!Preferred(g)
      BY <2>6 DEF Service!Preferred
    <2>8. /\ Serving = Service!Nobody /\ Serving' \in ready /\ Service!Preferred(Serving')
          /\ Waits[Serving'] # <<>> /\ Waits' = [Waits EXCEPT ![Serving'] = Tail(@)]
      BY <2>1, <2>2, <2>4, <2>5, <2>6, <2>7
    <2>9. Service!Serve
      <3>1. Service!Serve <=>
              /\ Serving = Service!Nobody /\ Serving' \in ready /\ Service!Preferred(Serving')
              /\ Waits[Serving'] # <<>> /\ Waits' = [Waits EXCEPT ![Serving'] = Tail(@)]
        BY DEF Service!Serve, Waits, Serving
      <3>2. QED
        BY <2>8, <3>1
    <2>10. QED
      BY <2>9 DEF Service!Next
  <1>5. ASSUME SchedulePacket, NobodyAsked, inTransit = {}, transmitState = "TX_IDLE"
        PROVE  Service!Next
    BY <1>3, <1>4, <1>5 DEF SchedulePacket
  <1>6. CASE SelectionHandleRequestPacket
    <2>1. Asked
      BY <1>1, <1>6 DEF SelectionHandleRequestPacket, Protocol, Waiting, Climbing,
                        Descending, Delivered, Busy, Flags
    <2>2. QED
      BY <1>5, <1>6, <2>1 DEF SelectionHandleRequestPacket, Asked
  <1>7. CASE SelectionHandlePacketEnqueued /\ packetRequestedFromInputs
    <2>1. Waiting
      BY <1>1, <1>7 DEF Protocol, Asked, Climbing, Descending, Delivered, Busy, Flags
    <2>2. QED
      BY <1>5, <1>7, <2>1 DEF SelectionHandlePacketEnqueued, Waiting
  <1>8. CASE SelectionHandlePacketEnqueued /\ ~packetRequestedFromInputs
    BY <1>3, <1>8 DEF SelectionHandlePacketEnqueued
  <1>9. QED
    BY <1>6, <1>7, <1>8 DEF SelectionEvent

\* A packet that is dropped does not arrive.
LEMMA ArriveServes ==
  ASSUME ServiceInv, NEW h \in Gate, NEW bits \in PacketSizes, Arrive(h, bits)
  PROVE  Service!Next
  <1>1. TypeInv /\ Protocol /\ bits \in Nat /\ queue \in [Gate -> Seq(Nat)]
    BY PacketSizesAssumption
       DEF ServiceInv, ProtocolInv, TypeInv, TypeOK, QueuingTypeOK
  <1>2. UNCHANGED <<gateRequest, tsaRequest, queueRequest, inTransit, curTxFrame>>
    BY DEF Arrive, Enqueue, macVars
  <1>3. Chosen' = Chosen /\ Serving' = Serving
    BY <1>2 DEF Chosen, Serving, Leaving
  <1>4. CASE queue' = queue
    BY <1>2, <1>4, ChainUntouched, NothingServed
  <1>5. CASE queue' = [queue EXCEPT ![h] = Append(queue[h], bits)]
    <2>1. Waits[h] \in Seq(Nat) /\ Waits'[h] = Append(Waits[h], bits)
      <3>1. CASE h \in Chosen
        <4>1. Climbing(h)
          BY <1>1, <3>1 DEF Chosen, Protocol, Asked, Waiting, Climbing, AtGate, AtTSA,
                            AtQueue, Descending, Delivered, Busy, NobodyAsked, NoRequest
        <4>2. queue[h] \in Seq(Nat) /\ queue[h] # <<>>
          BY <1>1, <4>1, ReadyGate DEF Climbing
        <4>3. /\ Tail(queue[h]) \in Seq(Nat)
              /\ Tail(Append(queue[h], bits)) = Append(Tail(queue[h]), bits)
          BY <1>1, <4>2, AppendProperties, HeadTailProperties
        <4>4. QED
          BY <1>1, <1>3, <1>5, <3>1, <4>3 DEF Waits
      <3>2. CASE h \notin Chosen
        BY <1>1, <1>3, <1>5, <3>2 DEF Waits
      <3>3. QED
        BY <3>1, <3>2
    <2>2. \A g \in Gate : g # h => Waits'[g] = Waits[g]
      BY <1>1, <1>3, <1>5 DEF Waits
    <2>3. Waits' = [Waits EXCEPT ![h] = Append(Waits[h], bits)]
      BY <2>1, <2>2 DEF Waits
    <2>4. /\ Len(Waits'[h]) = Len(Waits[h]) + 1
          /\ Waits'[h][Len(Waits[h]) + 1] = bits
      BY <1>1, <2>1, AppendProperties
    <2>5. /\ Len(Waits'[h]) = Len(Waits[h]) + 1
          /\ Waits' = [Waits EXCEPT ![h] = Append(@, Waits'[h][Len(Waits[h]) + 1])]
      BY <2>3, <2>4
    <2>6. Service!Arrive
      BY <1>3, <2>5 DEF Service!Arrive, Waits, Serving
    <2>7. QED
      BY <2>6 DEF Service!Next
  <1>6. QED
    BY <1>4, <1>5 DEF Arrive, Enqueue

\* One packet is served at a time, and a step of the port is a step of the
\* abstract one, or none.
LEMMA StepServes ==
  ASSUME ServiceInv, [Next]_vars
  PROVE  OnWire' /\ (Service!Next \/ UNCHANGED Service!vars)
  <1> USE DEF queuingVars, queueVars, tsaAndGateVars, selectionVars, macVars
  <1>1. TypeInv /\ Protocol /\ OnWire
    BY DEF ServiceInv, ProtocolInv
  <1>2. ASSUME UNCHANGED macVars PROVE OnWire'
    BY <1>1, <1>2 DEF OnWire
  <1>3. ASSUME UNCHANGED <<queue, gateRequest, tsaRequest, queueRequest, inTransit, curTxFrame>>
        PROVE  Service!Next
    BY <1>3, ChainUntouched, NothingServed
  <1>4. CASE ControllerTick
    BY <1>2, <1>3, <1>4 DEF ControllerTick, SetGateStates
  <1>5. ASSUME NEW g \in Gate, GateEvent(g)
        PROVE  OnWire' /\ (Service!Next \/ UNCHANGED Service!vars)
    BY <1>2, <1>5, GateEventServes, NothingServed DEF GateEvent
  <1>6. ASSUME NEW packet \in inTransit, PacketEvent(packet)
        PROVE  OnWire' /\ (Service!Next \/ UNCHANGED Service!vars)
    BY <1>2, <1>6, PacketEventServes, NothingServed DEF PacketEvent
  <1>7. ASSUME NEW packet \in inTransit, MacHandleUpperPacket(packet)
        PROVE  OnWire' /\ (Service!Next \/ UNCHANGED Service!vars)
    <2>1. packet.gate \in Gate
      BY <1>1 DEF TypeInv, TypeOK, QueuingTypeOK, Transit
    <2>2. OnWire'
      BY <1>7, <2>1 DEF MacHandleUpperPacket, OnWire
    <2>3. QED
      BY <1>7, <2>2, PacketEventServes, NothingServed
  <1>8. CASE SelectionEvent
    BY <1>2, <1>8, SelectionServes DEF SelectionEvent
  <1>9. CASE MacHandleEndTxPeriod
    <2>1. Busy
      BY <1>1, <1>9 DEF MacHandleEndTxPeriod, Protocol, Asked, Waiting, Climbing,
                        Descending, Delivered
    <2>2. OnWire' /\ curTxFrame \in Gate /\ curTxFrame' = NoFrame
      BY <1>1, <1>9 DEF MacHandleEndTxPeriod, OnWire
    <2>3. UNCHANGED <<queue, gateRequest, tsaRequest, queueRequest, inTransit>>
      BY <1>9 DEF MacHandleEndTxPeriod
    <2>4. Chosen = {} /\ Leaving = {} /\ Chosen' = {} /\ Leaving' = {}
      BY <2>1, <2>3 DEF Busy, NobodyAsked, NoRequest, Chosen, Leaving
    <2>5. Serving = curTxFrame /\ Serving' = NoFrame /\ Waits' = Waits
      BY <2>2, <2>3, <2>4 DEF Serving, Waits
    <2>6. curTxFrame # NoFrame
      BY <2>2, GateAssumption DEF NoFrame
    <2>7. Service!Complete
      BY <2>2, <2>5, <2>6 DEF Service!Complete, Service!Nobody, NoFrame, Waits, Serving
    <2>8. QED
      BY <2>2, <2>7 DEF Service!Next
  <1>10. CASE MacHandleEndIFGPeriod
    BY <1>1, <1>3, <1>10
       DEF MacHandleEndIFGPeriod, RequestNextFrame, RequestPacket, OnWire
  <1>11. CASE Elapse
    BY <1>1, <1>3, <1>11 DEF Elapse, OnWire
  <1>12. ASSUME NEW g \in Gate, NEW bits \in PacketSizes, Arrive(g, bits)
         PROVE  OnWire' /\ (Service!Next \/ UNCHANGED Service!vars)
    BY <1>2, <1>12, ArriveServes DEF Arrive
  <1>13. ASSUME NEW s \in SwapSchedules, SwapSchedule(s)
         PROVE  OnWire' /\ (Service!Next \/ UNCHANGED Service!vars)
    BY <1>2, <1>3, <1>13 DEF SwapSchedule
  <1>14. CASE UNCHANGED vars
    BY <1>2, <1>3, <1>14 DEF vars
  <1>15. QED
    BY <1>4, <1>5, <1>6, <1>7, <1>8, <1>9, <1>10, <1>11, <1>12, <1>13, <1>14
       DEF Next, EventLoop

\* The chain of events between a queue and the MAC amounts to one step: the
\* packet that is sent is the one that strict priority preferred when the
\* transmission selection took its turn, whatever else happens at that instant.
THEOREM PortServesAtomically == Spec => ServesAtomically
  <1>1. Init => OnWire /\ Service!Init
    <2> SUFFICES ASSUME Init PROVE OnWire /\ Service!Init
      OBVIOUS
    <2>1. OnWire
      BY DEF Init, OnWire
    <2>2. TypeInv /\ NobodyAsked /\ inTransit = {} /\ curTxFrame = NoFrame
          /\ queue = [g \in Gate |-> <<>>]
      BY InitTypeInv DEF Init, QueuingInit, NobodyAsked, NoRequest
    <2>3. Waits = [g \in Gate |-> <<>>] /\ Serving = NoFrame
      BY <2>2, StagesServe
    <2>4. QED
      BY <2>1, <2>3 DEF Service!Init, Service!Nobody, NoFrame, Waits, Serving
  <1>2. ServiceInv /\ [Next]_vars => OnWire' /\ [Service!Next]_(Service!vars)
    BY StepServes
  <1>3. QED
    BY <1>1, <1>2, ProtocolHolds, PTL DEF Spec, ServiceInv, ServesAtomically, Service!Spec

-----------------------------------------------------------------------------
(* The room in the queues *)

\* The sums that Total is the last of.
Sums(packets) ==
  LET sum[k \in 0 .. Len(packets)] == IF k = 0 THEN 0 ELSE sum[k - 1] + packets[k]
  IN  sum

LEMMA SumsAdd ==
  ASSUME NEW s \in Seq(Nat)
  PROVE  /\ Total(s) = Sums(s)[Len(s)]
         /\ Sums(s)[0] = 0
         /\ \A k \in 0 .. Len(s) : Sums(s)[k] \in Int
         /\ \A k \in 1 .. Len(s) : Sums(s)[k] = Sums(s)[k - 1] + s[k]
  <1> DEFINE m == Len(s)
             sum[k \in 0 .. m] == IF k = 0 THEN 0 ELSE sum[k - 1] + s[k]
  <1>1. m \in Nat /\ s \in [1 .. m -> Int] /\ 0 \in Int
    BY LenProperties
  <1>2. PICK f \in [0 .. m -> Int] :
          f = [k \in 0 .. m |-> IF k = 0 THEN 0 ELSE f[k - 1] + s[k]]
    <2> HIDE DEF m
    <2>1. PICK f : AreSums(f, m, 0, s)
      BY <1>1, SumExists
    <2>2. QED
      BY <2>1 DEF AreSums
  <1>3. sum = [k \in 0 .. m |-> IF k = 0 THEN 0 ELSE sum[k - 1] + s[k]]
    BY <1>2
  <1>4. Sums(s) = sum /\ Total(s) = sum[m]
    BY DEF Sums, Total
  <1> HIDE DEF sum, m
  <1>5. \A k \in 0 .. m : sum[k] = IF k = 0 THEN 0 ELSE sum[k - 1] + s[k]
    BY <1>3
  <1>6. 0 \in 0 .. m /\ \A k \in 1 .. m : k \in 0 .. m /\ k # 0 /\ s[k] \in Int
    BY <1>1
  <1>7. sum[0] = 0 /\ \A k \in 1 .. m : sum[k] = sum[k - 1] + s[k]
    BY <1>5, <1>6
  <1>8. \A k \in 0 .. m : sum[k] \in Int
    <2> DEFINE T == {k \in 0 .. m : sum[k] \in Int}
    <2>1. 0 \in T /\ T \in SUBSET (0 .. m)
      BY <1>6, <1>7
    <2>2. \A k \in 1 .. m : k - 1 \in T => k \in T
      BY <1>6, <1>7
    <2>3. T = 0 .. m
      <3> HIDE DEF T
      <3>1. QED
        BY <1>1, <2>1, <2>2, Induction
    <2>4. QED
      BY <2>3
  <1>9. QED
    BY <1>4, <1>7, <1>8 DEF m

LEMMA TotalOfNone == Total(<<>>) = 0
  <1>1. <<>> \in Seq(Nat) /\ Len(<<>>) = 0
    BY EmptySeq
  <1>2. QED
    BY <1>1, SumsAdd

\* Two lists whose sums begin alike and go on alike.
LEMMA SumsAlike ==
  ASSUME NEW s \in Seq(Nat), NEW t \in Seq(Nat), NEW i \in {0, 1}, NEW m \in Nat,
         m <= Len(s), m + i <= Len(t), \A k \in 1 .. m : s[k] = t[k + i]
  PROVE  Sums(t)[m + i] = Sums(t)[i] + Sums(s)[m]
  <1> DEFINE T == {k \in 0 .. m : Sums(t)[k + i] = Sums(t)[i] + Sums(s)[k]}
  <1>1. Len(s) \in Nat /\ Len(t) \in Nat /\ i \in 0 .. Len(t) /\ 0 + i = i
    BY LenProperties
  <1>2. /\ Sums(s)[0] = 0
        /\ \A k \in 0 .. Len(s) : Sums(s)[k] \in Int
        /\ \A k \in 1 .. Len(s) : Sums(s)[k] = Sums(s)[k - 1] + s[k]
    BY SumsAdd
  <1>3. /\ \A k \in 0 .. Len(t) : Sums(t)[k] \in Int
        /\ \A k \in 1 .. Len(t) : Sums(t)[k] = Sums(t)[k - 1] + t[k]
    BY SumsAdd
  <1>4. 0 \in T
    BY <1>1, <1>2, <1>3
  <1>5. ASSUME NEW k \in 1 .. m, k - 1 \in T PROVE k \in T
    <2>1. /\ k \in 1 .. Len(s) /\ k - 1 \in 0 .. Len(s)
          /\ k + i \in 1 .. Len(t) /\ (k + i) - 1 = (k - 1) + i /\ (k - 1) + i \in 0 .. Len(t)
      <3>1. k \in Nat /\ i \in Nat /\ 1 <= k /\ k <= m /\ m + i <= Len(t) /\ m <= Len(s)
        OBVIOUS
      <3>2. QED
        BY <1>1, <3>1
    <2>2. /\ Sums(s)[k] = Sums(s)[k - 1] + s[k] /\ s[k] = t[k + i]
          /\ Sums(s)[k - 1] \in Int /\ Sums(s)[k] \in Int /\ Sums(t)[i] \in Int
      BY <1>1, <1>2, <1>3, <2>1
    <2>3. Sums(t)[k + i] = Sums(t)[(k + i) - 1] + t[k + i]
      BY <1>3, <2>1
    <2>4. Sums(t)[(k - 1) + i] = Sums(t)[i] + Sums(s)[k - 1]
      BY <1>5
    <2>5. s[k] \in Nat
      BY <2>1, ElementOfSeq
    <2>6. Sums(t)[k + i] = Sums(t)[i] + Sums(s)[k]
      <3>1. Sums(t)[k + i] = Sums(t)[(k - 1) + i] + s[k]
        <4>1. (k + i) - 1 = (k - 1) + i
          BY <2>1
        <4>2. QED
          BY <2>2, <2>3, <4>1
      <3> DEFINE a == Sums(t)[i]
                 b == Sums(s)[k - 1]
                 c == Sums(s)[k]
      <3>2. a \in Int /\ b \in Int /\ s[k] \in Int /\ c = b + s[k]
            /\ Sums(t)[k + i] = (a + b) + s[k]
        BY <2>2, <2>4, <2>5, <3>1
      <3> HIDE DEF a, b, c
      <3>3. Sums(t)[k + i] = a + c
        BY <3>2, SMTT(30)
      <3>4. QED
        BY <3>3 DEF a, c
    <2>7. QED
      BY <2>6
  <1>6. T \in SUBSET (0 .. m)
    OBVIOUS
  <1>7. m \in T
    <2> HIDE DEF T
    <2>1. T = 0 .. m
      BY <1>4, <1>5, <1>6, Induction
    <2>2. QED
      BY <2>1
  <1>8. QED
    BY <1>7

LEMMA TotalOfAppend ==
  ASSUME NEW s \in Seq(Nat), NEW bits \in Nat
  PROVE  Total(Append(s, bits)) = Total(s) + bits
  <1> DEFINE t == Append(s, bits)
             m == Len(s)
  <1>1. /\ t \in Seq(Nat) /\ Len(t) = m + 1 /\ m \in Nat /\ t[m + 1] = bits
        /\ \A k \in 1 .. m : t[k] = s[k]
    BY AppendProperties, LenProperties
  <1> HIDE DEF t, m
  <1>2. /\ Sums(t)[0] = 0
        /\ Sums(t)[m + 1] = Sums(t)[m] + bits /\ Total(t) = Sums(t)[m + 1]
    <2>1. m + 1 \in 1 .. Len(t) /\ (m + 1) - 1 = m
      BY <1>1
    <2>2. QED
      BY <1>1, <2>1, SumsAdd
  <1>3. Sums(t)[m + 0] = Sums(t)[0] + Sums(s)[m]
    <2>1. m <= Len(s) /\ m + 0 <= Len(t) /\ \A k \in 1 .. m : s[k] = t[k + 0]
      BY <1>1 DEF m
    <2>2. QED
      BY <1>1, <2>1, SumsAlike
  <1>4. Total(s) = Sums(s)[m] /\ Total(s) \in Int
    <2>1. m \in 0 .. Len(s)
      BY <1>1 DEF m
    <2>2. QED
      BY <2>1, SumsAdd DEF m
  <1>5. QED
    BY <1>1, <1>2, <1>3, <1>4 DEF t

LEMMA TotalOfTail ==
  ASSUME NEW s \in Seq(Nat), s # <<>>
  PROVE  Head(s) \in Nat /\ Total(Tail(s)) \in Int /\ Total(s) = Head(s) + Total(Tail(s))
  <1> DEFINE t == Tail(s)
             m == Len(t)
  <1>1. /\ t \in Seq(Nat) /\ Len(s) = m + 1 /\ m \in Nat /\ Head(s) = s[1] /\ Head(s) \in Nat
        /\ \A k \in 1 .. m : t[k] = s[k + 1]
    BY HeadTailProperties, LenProperties
  <1> HIDE DEF t
  <1>2. Sums(s)[m + 1] = Sums(s)[1] + Sums(t)[m]
    <2> HIDE DEF m
    <2>1. m <= Len(t) /\ m + 1 <= Len(s)
      BY <1>1 DEF m
    <2>2. QED
      BY <1>1, <2>1, SumsAlike
  <1>3. Sums(s)[1] = Head(s) /\ Total(s) = Sums(s)[m + 1]
    <2>1. 1 \in 1 .. Len(s) /\ 1 - 1 = 0
      BY <1>1
    <2>2. Sums(s)[1] = Sums(s)[0] + s[1] /\ Sums(s)[0] = 0 /\ Total(s) = Sums(s)[Len(s)]
      BY <2>1, SumsAdd
    <2>3. QED
      BY <1>1, <2>2
  <1>4. Total(t) = Sums(t)[m] /\ Total(t) \in Int
    <2>1. m \in 0 .. Len(t)
      BY <1>1
    <2>2. QED
      BY <1>1, <2>1, SumsAdd
  <1>5. QED
    BY <1>1, <1>2, <1>3, <1>4 DEF t

\* What is free and what is taken add up to the capacity of a queue, whatever
\* arrives, is dropped and leaves.
THEOREM BuffersAreAccounted == Spec => []BufferAccounting
  <1>1. Init => BufferAccounting
    BY TotalOfNone, BufferCapacityAssumption DEF Init, QueuingInit, BufferAccounting
  <1>2. TypeInv /\ BufferAccounting /\ [Next]_vars => BufferAccounting'
    <2> SUFFICES ASSUME TypeInv, BufferAccounting, [Next]_vars PROVE BufferAccounting'
      OBVIOUS
    <2> USE DEF queuingVars, queueVars
    <2>1. queue \in [Gate -> Seq(Nat)] /\ availableBufferCapacity \in [Gate -> Nat]
      BY DEF TypeInv, TypeOK, QueuingTypeOK
    <2>2. ASSUME UNCHANGED <<queue, availableBufferCapacity>> PROVE BufferAccounting'
      BY <2>2 DEF BufferAccounting
    <2>3. ASSUME NEW g \in Gate, QueueHandleRequestPacket(g) PROVE BufferAccounting'
      <3>1. /\ queue[g] \in Seq(Nat) /\ queue[g] # <<>>
            /\ queue' = [queue EXCEPT ![g] = Tail(@)]
            /\ availableBufferCapacity' = [availableBufferCapacity EXCEPT ![g] = @ + Head(queue[g])]
        BY <2>1, <2>3 DEF QueueHandleRequestPacket, QueueIsEmpty, Dequeue
      <3>2. /\ Head(queue[g]) \in Nat /\ Total(Tail(queue[g])) \in Int
            /\ Total(queue[g]) = Head(queue[g]) + Total(Tail(queue[g]))
        BY <3>1, TotalOfTail
      <3>3. /\ queue'[g] = Tail(queue[g])
            /\ availableBufferCapacity'[g] = availableBufferCapacity[g] + Head(queue[g])
            /\ \A h \in Gate : h # g => /\ queue'[h] = queue[h]
                                        /\ availableBufferCapacity'[h] = availableBufferCapacity[h]
        BY <2>1, <3>1
      <3>4. availableBufferCapacity[g] + Total(queue[g]) = BufferCapacity
            /\ availableBufferCapacity[g] \in Nat
        BY <2>1 DEF BufferAccounting
      <3>5. availableBufferCapacity'[g] + Total(queue'[g]) = BufferCapacity
        BY <3>2, <3>3, <3>4
      <3>6. QED
        BY <3>3, <3>5 DEF BufferAccounting
    <2>4. ASSUME NEW g \in Gate, NEW bits \in Nat, Enqueue(g, bits) PROVE BufferAccounting'
      <3>1. CASE availableBufferCapacity[g] >= bits
        <4>1. Total(Append(queue[g], bits)) = Total(queue[g]) + bits /\ Total(queue[g]) \in Int
          <5>1. queue[g] \in Seq(Nat) /\ Len(queue[g]) \in 0 .. Len(queue[g])
            BY <2>1, LenProperties
          <5>2. QED
            BY <5>1, TotalOfAppend, SumsAdd
        <4>2. /\ queue'[g] = Append(queue[g], bits)
              /\ availableBufferCapacity'[g] = availableBufferCapacity[g] - bits
              /\ \A h \in Gate : h # g => /\ queue'[h] = queue[h]
                                          /\ availableBufferCapacity'[h] = availableBufferCapacity[h]
          BY <2>1, <2>4, <3>1 DEF Enqueue
        <4>3. availableBufferCapacity[g] + Total(queue[g]) = BufferCapacity
              /\ availableBufferCapacity[g] \in Nat
          BY <2>1 DEF BufferAccounting
        <4>4. availableBufferCapacity'[g] + Total(queue'[g]) = BufferCapacity
          BY <4>1, <4>2, <4>3
        <4>5. QED
          BY <4>2, <4>4 DEF BufferAccounting
      <3>2. CASE ~(availableBufferCapacity[g] >= bits)
        BY <2>2, <2>4, <3>2 DEF Enqueue
      <3>3. QED
        BY <3>1, <3>2
    <2>5. CASE ControllerTick
      BY <2>2, <2>5 DEF ControllerTick, SetGateStates
    <2>6. ASSUME NEW g \in Gate, GateEvent(g) PROVE BufferAccounting'
      BY <2>2, <2>3, <2>6
         DEF GateEvent, TSAHandleRequestPacket, TSAHandlePacketEnqueued,
             TSAHandleGateStateChanged, GateHandleRequestPacket,
             GateHandlePacketEnqueued, GateHandleGateStateChanged
    <2>7. ASSUME NEW packet \in inTransit, PacketEvent(packet) \/ MacHandleUpperPacket(packet)
          PROVE  BufferAccounting'
      BY <2>2, <2>7 DEF PacketEvent, TSAHandlePacket, GateHandlePacket,
                        SelectionHandlePacket, MacHandleUpperPacket
    <2>8. CASE SelectionEvent
      BY <2>2, <2>8 DEF SelectionEvent, SelectionHandleRequestPacket,
                        SelectionHandlePacketEnqueued
    <2>9. CASE MacHandleEndTxPeriod \/ MacHandleEndIFGPeriod
      BY <2>2, <2>9 DEF MacHandleEndTxPeriod, MacHandleEndIFGPeriod,
                        RequestNextFrame, RequestPacket
    <2>10. CASE Elapse
      BY <2>2, <2>10 DEF Elapse
    <2>11. ASSUME NEW g \in Gate, NEW bits \in PacketSizes, Arrive(g, bits)
           PROVE  BufferAccounting'
      BY <2>4, <2>11, PacketSizesAssumption DEF Arrive
    <2>12. ASSUME NEW s \in SwapSchedules, SwapSchedule(s) PROVE BufferAccounting'
      BY <2>2, <2>12 DEF SwapSchedule
    <2>13. CASE UNCHANGED vars
      BY <2>2, <2>13 DEF vars
    <2>14. QED
      BY <2>5, <2>6, <2>7, <2>8, <2>9, <2>10, <2>11, <2>12, <2>13 DEF Next, EventLoop
  <1>3. Spec => []TypeInv
    BY InitTypeInv, StepTypeInv, PTL DEF Spec
  <1>4. QED
    BY <1>1, <1>2, <1>3, PTL DEF Spec

-----------------------------------------------------------------------------
(***************************************************************************)
(* The guard band and the wake-ups.                                        *)
(*                                                                         *)
(* Both rest on one fact: calculateMaxBit's lookahead grants a packet its  *)
(* bits if and only if its gate stays open for as long as they take, over  *)
(* as many entries and cycles as that is.  The frame on the wire carries   *)
(* this promise with it, over every tick, until it has left.  And because  *)
(* what the lookahead promises only shrinks while time passes and does not *)
(* change at a tick that leaves the gate open, a packet can become ready   *)
(* only when its gate opens or when it arrives: both notify the            *)
(* transmission selection.                                                 *)
(***************************************************************************)

(* The windows ahead *)

\* When the k-th entry begins, counted from the start of a cycle and over its
\* end, and the gates that it opens.
Begins(s, k) == (k \div Len(s)) * CycleLength(s) + StartOf(s, k % Len(s))
OpensAt(s, k) == Object(s, k % Len(s))

\* Gate g stays open until so much time has passed since entry i began.
StaysOpen(s, i, g, end) ==
  \A k \in Nat : k >= i /\ Begins(s, k) - Begins(s, i) < end => g \in OpensAt(s, k)

LEMMA Division ==
  ASSUME NEW n \in Nat \ {0}, NEW k \in Nat
  PROVE  k = n * (k \div n) + (k % n) /\ k % n \in 0 .. n - 1 /\ k \div n \in Nat
  OBVIOUS

LEMMA DivisionIsUnique ==
  ASSUME NEW n \in Nat \ {0}, NEW p \in Int, NEW q \in Int,
         NEW r \in 0 .. n - 1, NEW t \in 0 .. n - 1, n * p + r = n * q + t
  PROVE  p = q /\ r = t
  <1>1. n * (p - q) = t - r
    OBVIOUS
  <1>2. CASE p - q >= 1
    <2>1. n * (p - q) >= n
      BY <1>2
    <2>2. QED
      BY <1>1, <2>1
  <1>3. CASE p - q <= -1
    <2>1. n * (p - q) <= -n
      BY <1>3
    <2>2. QED
      BY <1>1, <2>1
  <1>4. CASE p - q = 0
    BY <1>1, <1>4
  <1>5. QED
    BY <1>2, <1>3, <1>4

\* Indices wrap around at the end of a cycle.
LEMMA IndexWraps ==
  ASSUME NEW n \in Nat \ {0}, NEW k \in Nat
  PROVE  /\ (k + 1) % n = IF k % n = n - 1 THEN 0 ELSE (k % n) + 1
         /\ (k + 1) \div n = IF k % n = n - 1 THEN k \div n + 1 ELSE k \div n
         /\ (k + n) % n = k % n /\ (k + n) \div n = k \div n + 1
  <1> DEFINE q == k \div n
             r == k % n
  <1>1. k = n * q + r /\ r \in 0 .. n - 1 /\ q \in Nat
    BY Division
  <1>2. /\ k + 1 = n * ((k + 1) \div n) + ((k + 1) % n)
        /\ (k + 1) % n \in 0 .. n - 1 /\ (k + 1) \div n \in Nat
    <2>1. k + 1 \in Nat
      OBVIOUS
    <2>2. QED
      BY <2>1, Division, Zenon
  <1>3. /\ k + n = n * ((k + n) \div n) + ((k + n) % n)
        /\ (k + n) % n \in 0 .. n - 1 /\ (k + n) \div n \in Nat
    <2>1. k + n \in Nat
      OBVIOUS
    <2>2. QED
      BY <2>1, Division, Zenon
  <1> HIDE DEF q, r
  <1>4. n * (q + 1) = n * q + n /\ n * q \in Int /\ q + 1 \in Int
    <2>1. \A a, b \in Int : a * (b + 1) = a * b + a /\ a * b \in Int
      OBVIOUS
    <2>2. QED
      BY <1>1, <2>1
  <1>5. (k + n) % n = r /\ (k + n) \div n = q + 1
    <2>1. n * ((k + n) \div n) + ((k + n) % n) = n * (q + 1) + r
      BY <1>1, <1>3, <1>4
    <2>2. QED
      BY <1>1, <1>3, <1>4, <2>1, DivisionIsUnique
  <1>6. CASE r = n - 1
    <2>1. n * ((k + 1) \div n) + ((k + 1) % n) = n * (q + 1) + 0
      BY <1>1, <1>2, <1>4, <1>6
    <2>2. 0 \in 0 .. n - 1
      OBVIOUS
    <2>3. (k + 1) \div n = q + 1 /\ (k + 1) % n = 0
      <3> DEFINE p == (k + 1) \div n
                 t == (k + 1) % n
                 z == 0
      <3>1. p \in Int /\ t \in 0 .. n - 1 /\ z \in 0 .. n - 1 /\ q + 1 \in Int
            /\ n * p + t = n * (q + 1) + z
        BY <1>2, <1>4, <2>1, <2>2
      <3> HIDE DEF p, t, z
      <3>2. p = q + 1 /\ t = z
        BY <3>1, DivisionIsUnique
      <3>3. QED
        BY <3>2 DEF p, t, z
    <2>4. QED
      BY <1>5, <1>6, <2>3 DEF q, r
  <1>7. CASE r # n - 1
    <2>1. n * ((k + 1) \div n) + ((k + 1) % n) = n * q + (r + 1) /\ r + 1 \in 0 .. n - 1
      BY <1>1, <1>2, <1>4, <1>7
    <2>2. (k + 1) \div n = q /\ (k + 1) % n = r + 1
      BY <1>1, <1>2, <2>1, DivisionIsUnique
    <2>3. QED
      BY <1>5, <1>7, <2>2 DEF q, r
  <1>8. QED
    BY <1>6, <1>7

\* Entries begin one after another, over the end of a cycle too, and do so in
\* the next cycle as in this one.
LEMMA BeginsAdd ==
  ASSUME NEW s \in Schedule, s # <<>>, NEW k \in Nat
  PROVE  /\ Begins(s, k) \in Int /\ k % Len(s) \in 0 .. Len(s) - 1
         /\ Begins(s, k + 1) = Begins(s, k) + Duration(s, k % Len(s))
         /\ Begins(s, k + Len(s)) = Begins(s, k) + CycleLength(s)
         /\ OpensAt(s, k + Len(s)) = OpensAt(s, k)
         /\ CycleLength(s) \in Int
  <1> DEFINE n == Len(s)
             q == k \div n
             r == k % n
             c == CycleLength(s)
  <1>1. n \in Nat \ {0}
    BY NonEmptySchedule DEF IsEmpty
  <1>2. r \in 0 .. n - 1 /\ q \in Nat
    BY <1>1, Division
  <1>3. /\ (k + 1) % n = IF r = n - 1 THEN 0 ELSE r + 1
        /\ (k + 1) \div n = IF r = n - 1 THEN q + 1 ELSE q
        /\ (k + n) % n = r /\ (k + n) \div n = q + 1
    BY <1>1, IndexWraps
  <1>4. /\ StartOf(s, 0) = 0 /\ StartOf(s, n) = c /\ c \in Int
        /\ StartOf(s, r) \in Int /\ Duration(s, r) \in Int
        /\ StartOf(s, r + 1) = StartOf(s, r) + Duration(s, r)
    BY <1>1, <1>2, Starts, Durations DEF CycleLength
  <1>5. q * c \in Int /\ (q + 1) * c = q * c + c
    <2>1. \A a, b \in Int : a * b \in Int /\ (a + 1) * b = a * b + b
      OBVIOUS
    <2> HIDE DEF q, c
    <2>2. QED
      BY <1>2, <1>4, <2>1
  <1>6. /\ Begins(s, k) = q * c + StartOf(s, r)
        /\ Begins(s, k + 1) = ((k + 1) \div n) * c + StartOf(s, (k + 1) % n)
        /\ Begins(s, k + n) = ((k + n) \div n) * c + StartOf(s, (k + n) % n)
        /\ OpensAt(s, k + n) = Object(s, (k + n) % n) /\ OpensAt(s, k) = Object(s, r)
    BY DEF Begins, OpensAt
  <1> HIDE DEF n, q, r, c
  <1>7. Begins(s, k + 1) = Begins(s, k) + Duration(s, r)
    <2>1. CASE r = n - 1
      <3>1. Begins(s, k + 1) = (q + 1) * c + StartOf(s, 0) /\ r + 1 = n
        BY <1>1, <1>3, <1>6, <2>1
      <3>2. QED
        BY <1>4, <1>5, <1>6, <3>1
    <2>2. CASE r # n - 1
      <3>1. Begins(s, k + 1) = q * c + StartOf(s, r + 1)
        BY <1>3, <1>6, <2>2
      <3>2. QED
        BY <1>4, <1>5, <1>6, <3>1
    <2>3. QED
      BY <2>1, <2>2
  <1>8. Begins(s, k + n) = Begins(s, k) + c /\ Begins(s, k) \in Int
    <2>1. Begins(s, k + n) = (q + 1) * c + StartOf(s, r)
      BY <1>3, <1>6
    <2>2. QED
      BY <1>4, <1>5, <1>6, <2>1
  <1>9. QED
    BY <1>2, <1>3, <1>4, <1>6, <1>7, <1>8 DEF n, r, c

LEMMA BeginsAscend ==
  ASSUME NEW s \in Schedule, s # <<>>, NEW i \in Nat, NEW k \in Nat, i <= k
  PROVE  Begins(s, i) <= Begins(s, k)
  <1> DEFINE T == {l \in 0 .. k : i <= l => Begins(s, i) <= Begins(s, l)}
  <1>1. \A l \in Nat : Begins(s, l) \in Int
    BY BeginsAdd
  <1>2. 0 \in T
    BY <1>1
  <1>3. ASSUME NEW l \in 1 .. k, l - 1 \in T PROVE l \in T
    <2>1. l - 1 \in Nat /\ (l - 1) + 1 = l
      BY <1>3
    <2>2. /\ Begins(s, l) = Begins(s, l - 1) + Duration(s, (l - 1) % Len(s))
          /\ (l - 1) % Len(s) \in 0 .. Len(s) - 1
      BY <2>1, BeginsAdd
    <2>3. Duration(s, (l - 1) % Len(s)) \in Nat
      BY <2>2, Durations
    <2>4. CASE l = i
      BY <1>1, <2>4
    <2>5. CASE l # i
      BY <1>1, <1>3, <2>1, <2>2, <2>3, <2>5
    <2>6. QED
      BY <2>4, <2>5
  <1> HIDE DEF T
  <1>4. T = 0 .. k
    <2>1. T \in SUBSET (0 .. k)
      BY DEF T
    <2>2. \A l \in 1 .. k : l - 1 \in T => l \in T
      BY <1>3
    <2>3. QED
      BY <1>2, <2>1, <2>2, Induction
  <1>5. k \in T
    BY <1>4
  <1>6. QED
    BY <1>5 DEF T

\* The entry after entry i sees the same windows, later by what entry i lasts.
LEMMA NextEntry ==
  ASSUME NEW s \in Schedule, s # <<>>, NEW i \in 0 .. Len(s) - 1, NEW g, NEW end \in Int
  PROVE  LET j == (i + 1) % Len(s)
         IN  StaysOpen(s, i, g, end + Duration(s, i))
               => StaysOpen(s, j, g, end)
  <1> DEFINE n == Len(s)
             j == (i + 1) % n
             D == Duration(s, i)
             c == CycleLength(s)
  <1>1. n \in Nat \ {0} /\ i \in Nat
    BY NonEmptySchedule DEF IsEmpty
  <1>2. i % n = i /\ Begins(s, i + 1) = Begins(s, i) + D
    <2>1. i % n = i
      BY <1>1
    <2>2. Begins(s, i + 1) = Begins(s, i) + Duration(s, i % Len(s))
      BY <1>1, BeginsAdd
    <2>3. QED
      BY <2>1, <2>2
  <1>3. D \in Nat
    BY Durations
  <1>4. \A k \in Nat : /\ Begins(s, k) \in Int /\ c \in Int
                       /\ Begins(s, k + n) = Begins(s, k) + c
                       /\ OpensAt(s, k + n) = OpensAt(s, k)
    BY BeginsAdd
  <1>5. j = IF i = n - 1 THEN 0 ELSE i + 1
    BY <1>1, Indices
  <1> HIDE DEF n, j, D, c
  <1>6. ASSUME StaysOpen(s, i, g, end + D), NEW k \in Nat, k >= j,
               Begins(s, k) - Begins(s, j) < end
        PROVE  g \in OpensAt(s, k)
    <2>1. CASE i = n - 1
      <3>1. j = 0 /\ i + 1 = j + n
        BY <1>1, <1>5, <2>1
      <3>2. Begins(s, i) + D = Begins(s, j) + c
        BY <1>2, <1>4, <3>1
      <3>3. k + n \in Nat /\ k + n >= i
        BY <1>1, <2>1
      <3>4. Begins(s, k + n) - Begins(s, i) < end + D
        <4>1. /\ Begins(s, j) \in Int /\ Begins(s, i) \in Int /\ Begins(s, k) \in Int
              /\ c \in Int /\ Begins(s, k + n) = Begins(s, k) + c
          BY <1>1, <1>4, <1>6, <3>1
        <4>2. QED
          BY <1>3, <1>6, <3>2, <4>1
      <3>5. QED
        BY <1>4, <1>6, <3>3, <3>4 DEF StaysOpen
    <2>2. CASE i # n - 1
      <3>1. j = i + 1
        BY <1>5, <2>2
      <3>2. k >= i /\ Begins(s, k) - Begins(s, i) < end + D
        <4>1. Begins(s, j) \in Int /\ Begins(s, i) \in Int /\ Begins(s, k) \in Int
          BY <1>1, <1>4, <1>6, <3>1
        <4>2. QED
          BY <1>1, <1>2, <1>3, <1>6, <3>1, <4>1
      <3>3. QED
        BY <1>6, <3>2 DEF StaysOpen
    <2>3. QED
      BY <2>1, <2>2
  <1>7. QED
    BY <1>6 DEF StaysOpen, j, D, n

LEMMA EntryBefore ==
  ASSUME NEW s \in Schedule, s # <<>>, NEW i \in 0 .. Len(s) - 1, NEW g, NEW end \in Int,
         g \in Object(s, i), StaysOpen(s, (i + 1) % Len(s), g, end)
  PROVE  StaysOpen(s, i, g, end + Duration(s, i))
  <1> DEFINE n == Len(s)
             j == (i + 1) % n
             D == Duration(s, i)
             c == CycleLength(s)
  <1>1. n \in Nat \ {0} /\ i \in Nat
    BY NonEmptySchedule DEF IsEmpty
  <1>2. i % n = i /\ Begins(s, i + 1) = Begins(s, i) + D
    <2>1. i % n = i
      BY <1>1
    <2>2. Begins(s, i + 1) = Begins(s, i) + Duration(s, i % Len(s))
      BY <1>1, BeginsAdd
    <2>3. QED
      BY <2>1, <2>2
  <1>3. D \in Nat /\ OpensAt(s, i) = Object(s, i)
    BY <1>2, Durations DEF OpensAt, n, D
  <1>4. \A k \in Nat : /\ Begins(s, k) \in Int /\ c \in Int
                       /\ Begins(s, k + n) = Begins(s, k) + c
                       /\ OpensAt(s, k + n) = OpensAt(s, k)
    BY BeginsAdd
  <1>5. j = (IF i = n - 1 THEN 0 ELSE i + 1) /\ StaysOpen(s, j, g, end)
    BY <1>1, Indices
  <1> HIDE DEF n, j, D, c
  <1>6. ASSUME NEW k \in Nat, k >= i, Begins(s, k) - Begins(s, i) < end + D
        PROVE  g \in OpensAt(s, k)
    <2>1. CASE k = i
      BY <1>3, <2>1
    <2>2. CASE k # i /\ i = n - 1
      <3>1. j = 0 /\ i + 1 = j + n
        BY <1>1, <1>5, <2>2
      <3>2. Begins(s, i) + D = Begins(s, j) + c
        BY <1>2, <1>4, <3>1
      <3>3. k - n \in Nat /\ k - n >= j /\ (k - n) + n = k
        BY <1>1, <1>6, <2>2, <3>1
      <3>4. Begins(s, k - n) - Begins(s, j) < end /\ OpensAt(s, k) = OpensAt(s, k - n)
        <4>1. Begins(s, k) = Begins(s, k - n) + c /\ OpensAt(s, k) = OpensAt(s, k - n)
              /\ Begins(s, k - n) \in Int
          BY <1>4, <3>3
        <4>2. Begins(s, j) \in Int /\ Begins(s, i) \in Int /\ c \in Int
          BY <1>1, <1>4, <3>1
        <4> DEFINE x == Begins(s, k - n)
                   y == Begins(s, k)
                   b == Begins(s, i)
                   f == Begins(s, j)
        <4>3. /\ x \in Int /\ f \in Int /\ b \in Int /\ c \in Int /\ D \in Int
              /\ y = x + c /\ y - b < end + D /\ b + D = f + c
          BY <1>3, <1>6, <3>2, <4>1, <4>2
        <4> HIDE DEF x, y, b, f
        <4>4. x - f < end
          BY <4>3
        <4>5. QED
          BY <4>1, <4>4 DEF x, f
      <3>5. QED
        BY <1>5, <3>3, <3>4 DEF StaysOpen
    <2>3. CASE k # i /\ i # n - 1
      <3>1. j = i + 1
        BY <1>5, <2>3
      <3>2. k >= j /\ Begins(s, k) - Begins(s, j) < end
        <4>1. Begins(s, j) \in Int /\ Begins(s, i) \in Int /\ Begins(s, k) \in Int
          BY <1>1, <1>4, <3>1
        <4>2. QED
          BY <1>1, <1>2, <1>3, <1>6, <2>3, <3>1, <4>1
      <3>3. QED
        BY <1>5, <3>2 DEF StaysOpen
    <2>4. QED
      BY <2>1, <2>2, <2>3
  <1>7. QED
    BY <1>6 DEF StaysOpen, D

\* The lookahead's sums are the times at which the entries ahead begin.
LEMMA BitsAreWindows ==
  ASSUME NEW s \in Schedule, s # <<>>, NEW i \in 0 .. Len(s) - 1, NEW since \in Nat
  PROVE  LET bits == LookaheadBits(s, NoSchedule, i, since)
         IN  /\ CanLookAhead(s, NoSchedule, i)
             /\ bits[0] = 0
             /\ \A m \in 1 .. MTU : bits[m] + since = Begins(s, i + m) - Begins(s, i)
             /\ \A m \in 0 .. MTU : bits[m] \in Int
             /\ \A m \in 0 .. MTU :
                  LookaheadEntry(s, NoSchedule, i, m).open = OpensAt(s, i + m)
  <1> DEFINE bits == LookaheadBits(s, NoSchedule, i, since)
             long(m) == LookaheadEntry(s, NoSchedule, i, m).length * ClockRate
  <1>1. CanLookAhead(s, NoSchedule, i)
    <2>1. NoSchedule # <<>>
      BY NoScheduleAssumption, EmptySeq DEF Schedule
    <2>2. QED
      BY <2>1 DEF CanLookAhead
  <1>2. /\ bits \in [0 .. MTU -> Int] /\ bits[0] = 0
        /\ \A m \in 1 .. MTU : bits[m] = bits[m - 1] + long(m - 1)
                                           - (IF m = 1 THEN since ELSE 0)
    BY <1>1, BitsAreSums
  <1>3. i \in Nat /\ MTU \in Nat \ {0}
    BY MTUAssumption
  <1>4. ASSUME NEW m \in Nat
        PROVE  /\ LookaheadEntry(s, NoSchedule, i, m).open = OpensAt(s, i + m)
               /\ long(m) = Duration(s, (i + m) % Len(s))
    BY DEF LookaheadEntry, OpensAt, Object, Duration
  <1>5. ASSUME NEW m \in Nat
        PROVE  /\ Begins(s, i + m) \in Int /\ long(m) \in Int
               /\ Begins(s, i + (m + 1)) = Begins(s, i + m) + long(m)
    <2>1. i + m \in Nat /\ (i + m) + 1 = i + (m + 1)
      BY <1>3
    <2>2. /\ Begins(s, i + m) \in Int /\ (i + m) % Len(s) \in 0 .. Len(s) - 1
          /\ Begins(s, (i + m) + 1) = Begins(s, i + m) + Duration(s, (i + m) % Len(s))
      BY <2>1, BeginsAdd
    <2>3. Duration(s, (i + m) % Len(s)) \in Int
      BY <2>2, Durations
    <2>4. QED
      BY <1>4, <2>1, <2>2, <2>3
  <1> HIDE DEF bits, long
  <1> DEFINE T == {m \in 0 .. MTU :
                     m # 0 => bits[m] + since = Begins(s, i + m) - Begins(s, i)}
  <1>6. 0 \in T
    BY <1>3
  <1>7. ASSUME NEW m \in 1 .. MTU, m - 1 \in T PROVE m \in T
    <2>1. m - 1 \in Nat /\ (m - 1) + 1 = m /\ i + 0 = i
      BY <1>3
    <2>2. /\ Begins(s, i + m) = Begins(s, i + (m - 1)) + long(m - 1)
          /\ Begins(s, i + (m - 1)) \in Int /\ long(m - 1) \in Int
      BY <1>5, <2>1
    <2>3. Begins(s, i + 0) \in Int /\ Begins(s, i) = Begins(s, i + 0)
      BY <1>5, <2>1
    <2>4. bits[m - 1] \in Int /\ bits[m] \in Int
          /\ bits[m] = bits[m - 1] + long(m - 1) - (IF m = 1 THEN since ELSE 0)
      <3>1. m \in 0 .. MTU /\ m - 1 \in 0 .. MTU
        BY <1>3
      <3>2. QED
        BY <1>2, <3>1
    <2>5. CASE m = 1
      <3>1. bits[m] = 0 + long(0) - since /\ Begins(s, i + m) = Begins(s, i) + long(0)
            /\ long(0) \in Int
        BY <1>2, <2>2, <2>3, <2>4, <2>5
      <3>2. bits[m] + since = Begins(s, i + m) - Begins(s, i)
        BY <2>3, <3>1
      <3>3. QED
        BY <3>2
    <2>6. CASE m # 1
      <3>1. bits[m - 1] + since = Begins(s, i + (m - 1)) - Begins(s, i)
        BY <1>7, <2>6
      <3>2. bits[m] = bits[m - 1] + long(m - 1)
        BY <2>2, <2>4, <2>6
      <3>3. bits[m] + since = Begins(s, i + m) - Begins(s, i)
        <4> DEFINE a == bits[m - 1]
                   b == bits[m]
                   c == Begins(s, i + (m - 1))
                   d == Begins(s, i)
                   e == Begins(s, i + m)
                   l == long(m - 1)
        <4>1. /\ a \in Int /\ b \in Int /\ c \in Int /\ d \in Int /\ l \in Int
              /\ a + since = c - d /\ b = a + l /\ e = c + l
          BY <2>2, <2>3, <2>4, <3>1, <3>2
        <4> HIDE DEF a, b, c, d, e, l
        <4>2. b + since = e - d
          BY <4>1
        <4>3. QED
          BY <4>2 DEF b, d, e
      <3>4. QED
        BY <3>3
    <2>7. QED
      BY <2>5, <2>6
  <1> HIDE DEF T
  <1>8. T = 0 .. MTU
    <2>1. T \in SUBSET (0 .. MTU)
      BY DEF T
    <2>2. QED
      BY <1>3, <1>6, <1>7, <2>1, Induction
  <1>9. \A m \in 1 .. MTU : bits[m] + since = Begins(s, i + m) - Begins(s, i)
    BY <1>8 DEF T
  <1>10. /\ bits[0] = 0 /\ \A m \in 0 .. MTU : bits[m] \in Int
         /\ \A m \in 0 .. MTU :
              LookaheadEntry(s, NoSchedule, i, m).open = OpensAt(s, i + m)
    <2>1. \A m \in 0 .. MTU : m \in Nat
      BY <1>3
    <2>2. QED
      BY <1>2, <1>4, <2>1
  <1>11. QED
    BY <1>1, <1>9, <1>10 DEF bits

\* calculateMaxBit grants a packet its bits if and only if the gate stays open
\* for as long as they take, counted from the last tick of the clock.
LEMMA LookaheadFits ==
  ASSUME NEW s \in Schedule, s # <<>>, NEW i \in 0 .. Len(s) - 1,
         NEW g \in Gate, NEW since \in Nat, since < Duration(s, i), NEW time \in Nat \ {0}
  PROVE  /\ MaxBit(g, s, NoSchedule, i, since) \in Nat
         /\ MaxBit(g, s, NoSchedule, i, since) >= time
              <=> time <= MTU /\ StaysOpen(s, i, g, time + since)
  <1> DEFINE bits == LookaheadBits(s, NoSchedule, i, since)
             O == OpenEntries(g, s, NoSchedule, i)
             granted == MaxBit(g, s, NoSchedule, i, since)
  <1>1. /\ CanLookAhead(s, NoSchedule, i) /\ bits[0] = 0
        /\ \A m \in 1 .. MTU : bits[m] + since = Begins(s, i + m) - Begins(s, i)
        /\ \A m \in 0 .. MTU : bits[m] \in Int
        /\ \A m \in 0 .. MTU :
             LookaheadEntry(s, NoSchedule, i, m).open = OpensAt(s, i + m)
    BY BitsAreWindows
  <1>2. \A m \in 0 .. MTU : m \in O <=> g \in OpensAt(s, i + m)
    BY <1>1 DEF OpenEntries
  <1>3. PICK stop : /\ IsStop(MTU, O, bits, stop)
                    /\ granted = IF bits[stop] >= MTU THEN MTU ELSE bits[stop]
    BY <1>1, MaxBitStops
  <1> HIDE DEF bits, O, granted
  <1>4. /\ stop \in 0 .. MTU /\ bits[stop] \in Int
        /\ bits[stop] >= MTU \/ stop \notin O
        /\ \A k \in 0 .. stop - 1 : k \in O
    BY <1>1, <1>3 DEF IsStop
  <1>5. MTU \in Nat \ {0} /\ i \in Nat
    BY MTUAssumption
  <1>7. \A k \in Nat : Begins(s, k) \in Int
    BY BeginsAdd
  <1>6. granted \in Nat
    <2>1. bits[stop] >= 0
      <3>1. CASE stop = 0
        BY <1>1, <3>1
      <3>2. CASE stop # 0
        <4>1. stop \in 1 .. MTU /\ i + 1 \in Nat /\ i + stop \in Nat /\ i + 1 <= i + stop
          BY <1>4, <1>5, <3>2
        <4>2. Begins(s, i + 1) <= Begins(s, i + stop)
          BY <4>1, BeginsAscend
        <4>3. i % Len(s) = i /\ Begins(s, i + 1) = Begins(s, i) + Duration(s, i % Len(s))
          <5>1. Len(s) \in Nat \ {0}
            BY NonEmptySchedule DEF IsEmpty
          <5>2. i % Len(s) = i
            BY <5>1
          <5>3. QED
            BY <1>5, <5>2, BeginsAdd
        <4>4. bits[stop] + since = Begins(s, i + stop) - Begins(s, i)
          BY <1>1, <4>1
        <4>5. Duration(s, i) \in Nat
          BY Durations
        <4>6. /\ Begins(s, i + stop) \in Int /\ Begins(s, i) \in Int
              /\ Begins(s, i + 1) = Begins(s, i) + Duration(s, i)
          BY <1>5, <1>7, <4>1, <4>3
        <4>7. QED
          BY <1>4, <4>2, <4>4, <4>5, <4>6
      <3>3. QED
        BY <3>1, <3>2
    <2>2. QED
      BY <1>3, <1>4, <1>5, <2>1
  <1>8. ASSUME granted >= time
        PROVE  time <= MTU /\ StaysOpen(s, i, g, time + since)
    <2>1. time <= MTU /\ bits[stop] >= time /\ stop # 0
      BY <1>1, <1>3, <1>4, <1>5, <1>8
    <2>2. ASSUME NEW k \in Nat, k >= i, Begins(s, k) - Begins(s, i) < time + since
          PROVE  g \in OpensAt(s, k)
      <3>1. CASE k - i < stop
        <4>1. k - i \in 0 .. stop - 1 /\ k - i \in 0 .. MTU /\ i + (k - i) = k
          BY <1>4, <1>5, <2>2, <3>1
        <4>2. k - i \in O
          BY <1>4, <4>1
        <4>3. QED
          BY <1>2, <4>1, <4>2
      <3>2. CASE k - i >= stop
        <4>1. i + stop \in Nat /\ i + stop <= k /\ stop \in 1 .. MTU
          BY <1>4, <1>5, <2>1, <2>2, <3>2
        <4>2. Begins(s, i + stop) <= Begins(s, k)
          BY <4>1, BeginsAscend
        <4>3. bits[stop] + since = Begins(s, i + stop) - Begins(s, i)
          BY <1>1, <4>1
        <4>4. Begins(s, i + stop) \in Int /\ Begins(s, k) \in Int /\ Begins(s, i) \in Int
          BY <1>5, <1>7, <4>1
        <4> DEFINE x == Begins(s, i + stop)
                   y == Begins(s, k)
                   b == Begins(s, i)
                   sum == bits[stop]
        <4>5. /\ x \in Int /\ y \in Int /\ b \in Int /\ sum \in Int /\ sum >= time
              /\ x <= y /\ sum + since = x - b /\ y - b < time + since
          BY <1>4, <2>1, <2>2, <4>2, <4>3, <4>4
        <4> HIDE DEF x, y, b, sum
        <4>6. FALSE
          BY <4>5
        <4>7. QED
          BY <4>6
      <3>3. QED
        BY <1>4, <1>5, <3>1, <3>2
    <2>3. QED
      BY <2>1, <2>2 DEF StaysOpen
  <1>9. ASSUME time <= MTU, StaysOpen(s, i, g, time + since)
        PROVE  granted >= time
    <2>1. CASE bits[stop] >= MTU
      BY <1>3, <1>5, <1>9, <2>1
    <2>2. CASE ~(bits[stop] >= MTU)
      <3>1. g \notin OpensAt(s, i + stop)
        BY <1>2, <1>4, <2>2
      <3>2. i + stop \in Nat /\ i + stop >= i
        BY <1>4, <1>5
      <3>3. ~(Begins(s, i + stop) - Begins(s, i) < time + since)
        BY <1>9, <3>1, <3>2 DEF StaysOpen
      <3>4. Begins(s, i + stop) \in Int /\ Begins(s, i) \in Int
        BY <1>5, <1>7, <3>2
      <3>5. stop # 0
        <4>1. ASSUME stop = 0 PROVE FALSE
          <5>1. i + stop = i
            BY <1>5, <4>1
          <5>2. QED
            BY <3>3, <3>4, <5>1
        <4>2. QED
          BY <4>1
      <3>6. bits[stop] + since = Begins(s, i + stop) - Begins(s, i)
        BY <1>1, <1>4, <3>5
      <3>7. bits[stop] >= time
        BY <1>4, <3>3, <3>4, <3>6
      <3>8. QED
        BY <1>3, <2>2, <3>7
    <2>3. QED
      BY <2>1, <2>2
  <1>10. QED
    BY <1>6, <1>8, <1>9 DEF granted

LEMMA StaysOpenLess ==
  ASSUME NEW s \in Schedule, s # <<>>, NEW i \in Nat, NEW g,
         NEW a \in Int, NEW b \in Int, a <= b, StaysOpen(s, i, g, b)
  PROVE  StaysOpen(s, i, g, a)
  <1>1. ASSUME NEW k \in Nat, k >= i, Begins(s, k) - Begins(s, i) < a
        PROVE  g \in OpensAt(s, k)
    <2>1. Begins(s, k) \in Int /\ Begins(s, i) \in Int
      BY BeginsAdd
    <2>2. Begins(s, k) - Begins(s, i) < b
      BY <1>1, <2>1
    <2>3. QED
      BY <1>1, <2>2 DEF StaysOpen
  <1>2. QED
    BY <1>1 DEF StaysOpen

\* The clock lags behind by less than a tick.
LEMMA ClockLags ==
  ASSUME sinceLastChange \in Nat
  PROVE  /\ ClockTimeSinceLastChange \in Nat
         /\ ClockTimeSinceLastChange <= sinceLastChange
         /\ sinceLastChange - ClockTimeSinceLastChange <= ClockRate - 1
  <1>1. \A n \in Nat, r \in Nat \ {0} :
           (n \div r) * r \in Nat /\ (n \div r) * r <= n /\ n - (n \div r) * r <= r - 1
    OBVIOUS
  <1>2. QED
    BY <1>1, ClockRateAssumption DEF ClockTimeSinceLastChange

LEMMA ClockGoesOn ==
  ASSUME sinceLastChange \in Nat, sinceLastChange' = sinceLastChange + 1
  PROVE  ClockTimeSinceLastChange <= ClockTimeSinceLastChange'
  <1> DEFINE q == sinceLastChange \div ClockRate
             r == (sinceLastChange + 1) \div ClockRate
  <1>1. r = q + 1 \/ r = q
    BY IndexWraps, ClockRateAssumption
  <1>2. q \in Nat /\ ClockRate \in Nat
    BY Division, ClockRateAssumption
  <1>3. ClockTimeSinceLastChange = q * ClockRate
        /\ ClockTimeSinceLastChange' = r * ClockRate
    BY DEF ClockTimeSinceLastChange
  <1> HIDE DEF q, r
  <1>4. (q + 1) * ClockRate = q * ClockRate + ClockRate /\ q * ClockRate \in Nat
    <2>1. \A a, b \in Nat : (a + 1) * b = a * b + b /\ a * b \in Nat
      OBVIOUS
    <2>2. QED
      BY <1>2, <2>1
  <1>5. QED
    BY <1>1, <1>2, <1>3, <1>4

\* When an entry is over, so is a tick of the clock.
LEMMA ClockTicksAtEnds ==
  ASSUME NEW s \in Schedule, NEW i \in 0 .. Len(s) - 1, sinceLastChange = Duration(s, i)
  PROVE  ClockTimeSinceLastChange = sinceLastChange
  <1> DEFINE l == s[i + 1].length
             p == sinceLastChange \div ClockRate
             r == sinceLastChange % ClockRate
             z == 0
  <1>1. l \in Nat /\ sinceLastChange = l * ClockRate
    <2>1. s[i + 1] \in Entry
      BY DEF Schedule
    <2>2. QED
      BY <2>1 DEF Entry, Duration
  <1>2. /\ sinceLastChange \in Nat /\ ClockRate \in Nat \ {0}
        /\ l * ClockRate = ClockRate * l
    <2>1. \A a, b \in Nat : a * b \in Nat /\ a * b = b * a
      OBVIOUS
    <2>2. QED
      BY <1>1, <2>1, ClockRateAssumption
  <1>3. sinceLastChange = ClockRate * p + r /\ r \in 0 .. ClockRate - 1 /\ p \in Nat
    BY <1>2, Division
  <1>4. ClockTimeSinceLastChange = p * ClockRate
    BY DEF ClockTimeSinceLastChange
  <1>5. z \in 0 .. ClockRate - 1 /\ ClockRate * p + r = ClockRate * l + z
        /\ p \in Int /\ l \in Int /\ z = 0
    <2>1. z = 0 /\ z \in 0 .. ClockRate - 1
      BY <1>2
    <2> HIDE DEF l, p, r, z
    <2>2. ClockRate * p + r = ClockRate * l
      BY <1>1, <1>2, <1>3
    <2>3. ClockRate * l \in Int
      BY <1>1, <1>2
    <2>4. QED
      BY <1>1, <1>3, <2>1, <2>2, <2>3
  <1> HIDE DEF l, p, r, z
  <1>6. p = l
    BY <1>2, <1>3, <1>5, DivisionIsUnique
  <1>7. QED
    BY <1>1, <1>4, <1>6

-----------------------------------------------------------------------------
\* What happens to the controller in a step of the port.
LEMMA ControllerSteps ==
  ASSUME [Next]_vars
  PROVE  \/ ControllerTick
         \/ Elapse
         \/ \E s \in SwapSchedules : SwapSchedule(s)
         \/ UNCHANGED controllerVars
  BY DEF Next, EventLoop, GateEvent, PacketEvent, MacHandleUpperPacket, SelectionEvent,
         MacHandleEndTxPeriod, MacHandleEndIFGPeriod, Arrive, vars

\* The port comes to life with the first tick.  Under length-aware scheduling
\* no other schedule waits from then on, if none is loaded by a swap.
StartInv ==
  /\ ControllerInv
  /\ ~onHold
  /\ currentSchedule = <<>> => untilTick = 0 /\ Asked
  /\ LengthAware /\ currentSchedule # <<>> => nextSchedule = NoSchedule

LookaheadIsFinal == LengthAware => SwapSchedules = {}

LEMMA StepController ==
  ASSUME StartInv, [Next]_vars
  PROVE  ControllerInv' /\ ~onHold'
  <1>1. CASE ControllerTick
    <2>1. ControllerInv'
      BY <1>1, TickEntryInv DEF ControllerTick, StartInv
    <2>2. ~onHold'
      BY <1>1, PlainAssumption DEF ControllerTick, TickEntry, StartInv
    <2>3. QED
      BY <2>1, <2>2
  <1>2. CASE Elapse
    BY <1>2, ControllerElapseInv DEF Elapse, ControllerElapse, StartInv
  <1>3. ASSUME NEW s \in SwapSchedules, SwapSchedule(s)
        PROVE  ControllerInv' /\ ~onHold'
    <2>1. s \in Schedule
      BY SchedulesAssumption
    <2>2. LoadSchedule(s) /\ onHold' = onHold
      BY <1>3 DEF SwapSchedule, LoadSchedule
    <2>3. QED
      BY <2>1, <2>2, LoadScheduleInv DEF StartInv
  <1>4. CASE UNCHANGED controllerVars
    BY <1>4 DEF controllerVars, StartInv, ControllerInv, IdleInv, EntryInv, CurrentIndex
  <1>5. QED
    BY <1>1, <1>2, <1>3, <1>4, ControllerSteps

\* A tick ends the entry in force and applies the next one.
LEMMA TickApplies ==
  ASSUME StartInv, LengthAware, currentSchedule # <<>>, ControllerTick
  PROVE  LET s == currentSchedule
             i == CurrentIndex
         IN  /\ s \in Schedule /\ i \in 0 .. Len(s) - 1
             /\ currentSchedule' = s /\ nextSchedule' = NoSchedule
             /\ CurrentIndex' = (i + 1) % Len(s)
             /\ sinceLastChange = Duration(s, i) /\ sinceLastChange' = 0
             /\ gateOpen = Object(s, i)
             /\ gateOpen' = Object(s, (i + 1) % Len(s))
  <1> DEFINE s == currentSchedule
             i == CurrentIndex
  <1>1. ControllerInv /\ TickEntry /\ nextSchedule = NoSchedule /\ ~IsEmpty(s)
    BY DEF StartInv, ControllerTick, IsEmpty
  <1>2. TickSchedule = s /\ TickNextSchedule = NoSchedule
    BY <1>1 DEF TickSchedule, TickNextSchedule, SwapsSchedule
  <1>3. /\ currentSchedule' = s /\ nextSchedule' = NoSchedule
        /\ scheduleIndex \in 0 .. Len(s) - 1
        /\ CurrentIndex' = scheduleIndex /\ sinceLastChange' = 0
        /\ gateOpen' = Object(s, scheduleIndex)
    BY <1>1, <1>2, TickEntryInv
  <1>4. /\ i \in 0 .. Len(s) - 1
        /\ i = IF scheduleIndex = 0 THEN Len(s) - 1 ELSE scheduleIndex - 1
    BY <1>1, PositionInEntry
  <1>5. /\ s \in Schedule /\ untilTick = 0 /\ sinceLastChange \in Nat
        /\ sinceLastChange + untilTick = Duration(s, i) /\ gateOpen = Object(s, i)
    BY <1>1 DEF ControllerInv, EntryInv, TickEntry
  <1>6. Len(s) \in Nat \ {0}
    BY <1>1, <1>5, NonEmptySchedule
  <1> HIDE DEF i
  <1>7. scheduleIndex = (i + 1) % Len(s)
    <2>1. (i + 1) % Len(s) = IF i = Len(s) - 1 THEN 0 ELSE i + 1
      BY <1>4, <1>6, Indices
    <2>2. CASE scheduleIndex = 0
      <3>1. i = Len(s) - 1
        BY <1>4, <2>2
      <3>2. QED
        BY <2>1, <2>2, <3>1
    <2>3. CASE scheduleIndex # 0
      <3>1. i = scheduleIndex - 1
        BY <1>4, <2>3
      <3>2. i # Len(s) - 1 /\ i + 1 = scheduleIndex
        BY <1>3, <1>6, <3>1
      <3>3. QED
        BY <2>1, <3>2
    <2>4. QED
      BY <2>2, <2>3
  <1>8. sinceLastChange = Duration(s, i)
    BY <1>5
  <1>9. QED
    BY <1>3, <1>4, <1>5, <1>7, <1>8 DEF i

\* What an entry in force says of time.
LEMMA InEntry ==
  ASSUME StartInv, currentSchedule # <<>>
  PROVE  LET s == currentSchedule
             i == CurrentIndex
         IN  /\ s \in Schedule /\ i \in 0 .. Len(s) - 1
             /\ sinceLastChange \in Nat /\ untilTick \in Nat
             /\ sinceLastChange + untilTick = Duration(s, i)
             /\ gateOpen = Object(s, i) /\ gateOpen = OpensAt(s, i)
  <1>1. ControllerInv /\ ~IsEmpty(currentSchedule)
    BY DEF StartInv, IsEmpty
  <1>2. /\ currentSchedule \in Schedule
        /\ sinceLastChange \in Nat /\ untilTick \in Nat
        /\ sinceLastChange + untilTick = Duration(currentSchedule, CurrentIndex)
        /\ gateOpen = Object(currentSchedule, CurrentIndex)
    BY <1>1 DEF ControllerInv, EntryInv
  <1>3. CurrentIndex \in 0 .. Len(currentSchedule) - 1
    BY <1>1, PositionInEntry
  <1>4. CurrentIndex % Len(currentSchedule) = CurrentIndex
    <2> DEFINE i == CurrentIndex
               n == Len(currentSchedule)
    <2>1. n \in Nat \ {0} /\ i \in 0 .. n - 1
      BY <1>1, <1>2, <1>3, NonEmptySchedule
    <2> HIDE DEF i, n
    <2>2. i % n = i
      BY <2>1
    <2>3. QED
      BY <2>2 DEF i, n
  <1>5. QED
    BY <1>2, <1>3, <1>4 DEF OpensAt

LEMMA StepStart ==
  ASSUME LookaheadIsFinal, ProtocolInv, StartInv, [Next]_vars
  PROVE  StartInv'
  <1>1. ControllerInv' /\ ~onHold'
    BY StepController
  <1> DEFINE Alive == currentSchedule # <<>>
             Final == LengthAware /\ Alive => nextSchedule = NoSchedule
             Idle == ~Alive => untilTick = 0 /\ Asked
  <1>2. Final /\ Idle /\ ControllerInv
    BY DEF StartInv
  <1>3. CASE ControllerTick
    <2>1. currentSchedule' # <<>> /\ nextSchedule' = TickNextSchedule
      BY <1>2, <1>3, TickEntryInv DEF ControllerTick, IsEmpty
    <2>2. ASSUME LengthAware PROVE nextSchedule' = NoSchedule
      <3>1. CASE Alive
        BY <1>2, <2>1, <2>2, <3>1 DEF TickNextSchedule
      <3>2. CASE ~Alive
        <4>1. IsEmpty(currentSchedule) /\ scheduleIndex = 0
          BY <1>2, <3>2 DEF IsEmpty, ControllerInv, IdleInv
        <4>2. SwapsSchedule
          BY <1>3, <4>1 DEF ControllerTick, TickEntry, TickSchedule, SwapsSchedule
        <4>3. QED
          BY <2>1, <4>2 DEF TickNextSchedule
      <3>3. QED
        BY <3>1, <3>2
    <2>3. QED
      BY <1>1, <2>1, <2>2 DEF StartInv
  <1>4. CASE Elapse
    <2>1. UNCHANGED <<currentSchedule, nextSchedule>> /\ untilTick # 0
      BY <1>4 DEF Elapse, ControllerElapse, ControllerQuiet
    <2>2. QED
      BY <1>1, <1>2, <2>1 DEF StartInv
  <1>5. ASSUME NEW w \in SwapSchedules, SwapSchedule(w)
        PROVE  StartInv'
    <2>1. ~LengthAware
      BY <1>5 DEF LookaheadIsFinal
    <2>2. UNCHANGED <<currentSchedule, untilTick, queuingVars, macVars>>
      BY <1>5 DEF SwapSchedule, LoadSchedule
    <2>3. Asked => Asked'
      BY <2>2 DEF Asked, Flags, NobodyAsked, NoRequest, queuingVars, queueVars,
                  tsaAndGateVars, selectionVars, macVars
    <2>4. QED
      BY <1>1, <1>2, <2>1, <2>2, <2>3 DEF StartInv
  <1>6. CASE UNCHANGED controllerVars
    <2>1. UNCHANGED <<currentSchedule, nextSchedule, untilTick>>
      BY <1>6 DEF controllerVars
    <2>2. ASSUME ~Alive PROVE Asked'
      <3>1. Asked /\ untilTick = 0
        BY <1>2, <2>2
      <3> USE DEF Asked, Flags, NobodyAsked, NoRequest, queuingVars, queueVars,
                  tsaAndGateVars, selectionVars, macVars
      <3>2. CASE ControllerTick
        BY <3>1, <3>2 DEF ControllerTick, SetGateStates
      <3>3. ASSUME NEW g \in Gate, GateEvent(g) PROVE Asked'
        <4>1. gateRequest = {} /\ tsaRequest[g] = NotScheduled
              /\ queueRequest[g] = NotScheduled
          BY <3>1
        <4>2. \/ TSAHandlePacketEnqueued(g) \/ TSAHandleGateStateChanged(g)
              \/ GateHandlePacketEnqueued(g) \/ GateHandleGateStateChanged(g)
          BY <3>3, <4>1 DEF GateEvent, QueueHandleRequestPacket,
                            TSAHandleRequestPacket, GateHandleRequestPacket
        <4>3. UNCHANGED <<gateRequest, tsaRequest, queueRequest, selectionRequest,
                          packetRequestedFromUs, packetRequestedFromInputs, inTransit,
                          transmitState>>
          BY <3>3, <4>2 DEF GateEvent, TSAHandlePacketEnqueued, TSAHandleGateStateChanged,
                            GateHandlePacketEnqueued, GateHandleGateStateChanged
        <4>4. QED
          BY <3>1, <4>3
      <3>4. ~SelectionEvent /\ ~Elapse
        BY <3>1 DEF SelectionEvent, SelectionTurn, Elapse, InstantOver, Priority0Quiet,
                    ControllerQuiet
      <3>5. ~MacHandleEndTxPeriod /\ ~MacHandleEndIFGPeriod
        BY <3>1 DEF MacHandleEndTxPeriod, MacHandleEndIFGPeriod
      <3>6. \A g \in Gate, bits \in PacketSizes : ~Arrive(g, bits)
        BY <2>2 DEF Arrive, IsEmpty
      <3>7. inTransit = {}
        BY <3>1
      <3>8. ASSUME NEW w \in SwapSchedules, SwapSchedule(w) PROVE Asked'
        BY <3>1, <3>8 DEF SwapSchedule
      <3>9. CASE UNCHANGED vars
        BY <3>1, <3>9 DEF vars
      <3>10. QED
        BY <3>2, <3>3, <3>4, <3>5, <3>6, <3>7, <3>8, <3>9 DEF Next, EventLoop
    <2>3. QED
      BY <1>1, <1>2, <2>1, <2>2 DEF StartInv
  <1>7. QED
    BY <1>3, <1>4, <1>5, <1>6, ControllerSteps

-----------------------------------------------------------------------------
(* The guard band *)

\* The frame that came through gate g and has so much time to go on the wire
\* ends before the gate closes, but for the part of a tick that the clock may
\* lag behind.
Guarded(g, left) ==
  StaysOpen(currentSchedule, CurrentIndex, g, left - (ClockRate - 1) + sinceLastChange)

PacketsGuarded ==
  \A packet \in inTransit : Guarded(packet.gate, FrameTime(packet.bits))

FrameGuarded == transmitState = "TRANSMITTING" => Guarded(curTxFrame, macTimer)

GuardInv == queue \in [Gate -> Seq(PacketSizes)] /\ PacketsGuarded /\ FrameGuarded

\* Gate g is open for the packet at the head of its queue, as long as it takes.
MaySend(g) ==
  /\ g \in gateOpen /\ queue[g] # <<>>
  /\ LET bits == Head(queue[g]) + Overhead
     IN  /\ bits <= MTU
         /\ LengthAware /\ bits # 0
              => StaysOpen(currentSchedule, CurrentIndex, g,
                           bits + ClockTimeSinceLastChange)

\* That is what isEmpty answers when no tick is due.
LEMMA ReadyMaySend ==
  ASSUME TypeInv, StartInv, currentSchedule # <<>>, untilTick # 0, NEW g \in Gate
  PROVE  ~GateIsEmpty(g) <=> MaySend(g)
  <1> DEFINE s == currentSchedule
             i == CurrentIndex
             bits == Head(queue[g]) + Overhead
             since == ClockTimeSinceLastChange
  <1>1. PassesHold(g)
    BY DEF StartInv, PassesHold
  <1>2. CASE queue[g] = <<>>
    BY <1>2 DEF GateIsEmpty, QueueIsEmpty, MaySend
  <1>3. CASE queue[g] # <<>>
    <2>1. bits \in Nat
      <3>1. queue[g] \in Seq(Nat)
        BY DEF TypeInv, TypeOK, QueuingTypeOK
      <3>2. Head(queue[g]) \in Nat
        BY <1>3, <3>1, HeadTailProperties
      <3>3. QED
        BY <3>2, OverheadAssumption
    <2> HIDE DEF bits
    <2>2. ~GateIsEmpty(g) <=> g \in gateOpen /\ ~(bits > MaxTransferableBits(g))
      BY <1>1, <1>3 DEF GateIsEmpty, QueueIsEmpty, bits
    <2>3. CASE ~LengthAware
      <3>1. MaxTransferableBits(g) = MTU
        BY <2>3 DEF MaxTransferableBits
      <3>2. MaySend(g) <=> g \in gateOpen /\ bits <= MTU
        BY <1>3, <2>3 DEF MaySend, bits
      <3>3. QED
        BY <2>1, <2>2, <3>1, <3>2, MTUAssumption
    <2>4. CASE LengthAware
      <3>1. /\ s \in Schedule /\ i \in 0 .. Len(s) - 1 /\ sinceLastChange \in Nat
            /\ untilTick \in Nat /\ sinceLastChange + untilTick = Duration(s, i)
        BY InEntry
      <3>2. since \in Nat /\ since <= sinceLastChange
        BY <3>1, ClockLags
      <3>3. since < Duration(s, i)
        BY <3>1, <3>2
      <3>4. MaxTransferableBits(g) = MaxBit(g, s, NoSchedule, i, since)
        BY <2>4 DEF MaxTransferableBits, CalculateMaxBit, StartInv
      <3>5. MaySend(g) <=> /\ g \in gateOpen /\ bits <= MTU
                           /\ bits # 0 => StaysOpen(s, i, g, bits + since)
        BY <1>3, <2>4 DEF MaySend, bits
      <3> HIDE DEF s, i, since
      <3>6. currentSchedule = s /\ s # <<>>
        BY DEF s
      <3>7. CASE bits = 0
        <4>1. MaxBit(g, s, NoSchedule, i, since) \in Nat
          <5>1. 1 \in Nat \ {0}
            OBVIOUS
          <5>2. QED
            BY <3>1, <3>2, <3>3, <3>6, <5>1, LookaheadFits
        <4>2. QED
          BY <2>2, <3>4, <3>5, <3>7, <4>1, MTUAssumption
      <3>8. CASE bits # 0
        <4>1. bits \in Nat \ {0}
          BY <2>1, <3>8
        <4>2. /\ MaxBit(g, s, NoSchedule, i, since) \in Nat
              /\ MaxBit(g, s, NoSchedule, i, since) >= bits
                   <=> bits <= MTU /\ StaysOpen(s, i, g, bits + since)
          BY <3>1, <3>2, <3>3, <3>6, <4>1, LookaheadFits
        <4>3. ~(bits > MaxTransferableBits(g)) <=> MaxBit(g, s, NoSchedule, i, since) >= bits
          BY <2>1, <3>4, <4>2
        <4>4. QED
          BY <2>2, <3>5, <3>8, <4>2, <4>3
      <3>9. QED
        BY <3>7, <3>8
    <2>5. QED
      BY <2>3, <2>4
  <1>4. QED
    BY <1>2, <1>3

\* A guard lasts over the ticks, and while time passes.
LEMMA GuardLasts ==
  ASSUME LengthAware, SwapSchedules = {}, StartInv, currentSchedule # <<>>,
         NEW g, NEW left \in Nat, Guarded(g, left)
  PROVE  /\ ControllerTick => Guarded(g, left)'
         /\ Elapse /\ left # 0 => Guarded(g, left - 1)'
         /\ UNCHANGED controllerVars => Guarded(g, left)'
  <1> DEFINE s == currentSchedule
             i == CurrentIndex
  <1>1. s \in Schedule /\ i \in 0 .. Len(s) - 1 /\ sinceLastChange \in Nat
    BY InEntry
  <1>2. ASSUME ControllerTick PROVE Guarded(g, left)'
    <2>1. /\ currentSchedule' = s /\ CurrentIndex' = (i + 1) % Len(s)
          /\ sinceLastChange = Duration(s, i) /\ sinceLastChange' = 0
      BY <1>2, TickApplies
    <2> DEFINE end == left - (ClockRate - 1) + 0
    <2>2. end \in Int
      BY ClockRateAssumption
    <2>3. left - (ClockRate - 1) + sinceLastChange = end + Duration(s, i)
      BY <1>1, <2>1, ClockRateAssumption
    <2>4. StaysOpen(s, i, g, end + Duration(s, i))
      BY <2>3 DEF Guarded
    <2> HIDE DEF end
    <2>5. StaysOpen(s, (i + 1) % Len(s), g, end)
      BY <1>1, <2>2, <2>4, NextEntry
    <2>6. QED
      BY <2>1, <2>5 DEF Guarded, end
  <1>3. ASSUME Elapse, left # 0 PROVE Guarded(g, left - 1)'
    <2>1. UNCHANGED <<currentSchedule, scheduleIndex>>
          /\ sinceLastChange' = sinceLastChange + 1
      <3>1. untilTick # Never
        BY InEntry, NeverIsNoTime
      <3>2. QED
        BY <1>3, <3>1 DEF Elapse, ControllerElapse
    <2>2. CurrentIndex' = CurrentIndex
      BY <2>1 DEF CurrentIndex
    <2>3. (left - 1) - (ClockRate - 1) + sinceLastChange'
            = left - (ClockRate - 1) + sinceLastChange
      BY <1>1, <2>1, ClockRateAssumption
    <2>4. QED
      BY <2>1, <2>2, <2>3 DEF Guarded
  <1>4. ASSUME UNCHANGED controllerVars PROVE Guarded(g, left)'
    BY <1>4 DEF Guarded, controllerVars, CurrentIndex
  <1>5. QED
    BY <1>2, <1>3, <1>4

\* A packet that leaves its queue has been granted its time on the wire.
LEMMA LeavesGuarded ==
  ASSUME LengthAware, \A bits \in PacketSizes : MinFrame <= bits + Overhead,
         TypeInv, StartInv, currentSchedule # <<>>, untilTick # 0,
         queue \in [Gate -> Seq(PacketSizes)], NEW g \in Gate, ~GateIsEmpty(g)
  PROVE  Guarded(g, FrameTime(Head(queue[g])))
  <1> DEFINE bits == Head(queue[g]) + Overhead
             s == currentSchedule
             i == CurrentIndex
             since == ClockTimeSinceLastChange
  <1>1. MaySend(g) /\ queue[g] # <<>>
    BY ReadyMaySend DEF MaySend
  <1>2. Head(queue[g]) \in PacketSizes
    <2>1. queue[g] \in Seq(PacketSizes) /\ queue[g] # <<>>
      BY <1>1
    <2>2. QED
      BY <2>1, HeadTailProperties
  <1>3. bits \in Nat \ {0} /\ FrameTime(Head(queue[g])) = bits
    <2>1. MinFrame <= bits /\ bits \in Nat /\ MinFrame \in Nat \ {0}
      <3>1. PICK size \in PacketSizes : size = Head(queue[g])
        BY <1>2
      <3>2. size \in Nat /\ MinFrame <= size + Overhead
        BY PacketSizesAssumption
      <3>3. bits = size + Overhead
        BY <3>1
      <3>4. QED
        BY <3>2, <3>3, OverheadAssumption, WireAssumption
    <2>2. ~(bits < MinFrame)
      BY <2>1
    <2>3. QED
      BY <2>1, <2>2 DEF FrameTime
  <1>4. StaysOpen(s, i, g, bits + since)
    BY <1>1, <1>3 DEF MaySend
  <1>5. s \in Schedule /\ s # <<>> /\ i \in 0 .. Len(s) - 1 /\ sinceLastChange \in Nat
    BY InEntry
  <1>6. /\ since \in Nat /\ since <= sinceLastChange
        /\ sinceLastChange - since <= ClockRate - 1
    BY <1>5, ClockLags
  <1> HIDE DEF bits, s, i, since
  <1>7. i \in Nat /\ bits - (ClockRate - 1) + sinceLastChange \in Int
        /\ bits + since \in Int
        /\ bits - (ClockRate - 1) + sinceLastChange <= bits + since
    BY <1>3, <1>5, <1>6, ClockRateAssumption
  <1>8. StaysOpen(s, i, g, bits - (ClockRate - 1) + sinceLastChange)
    BY <1>4, <1>5, <1>7, StaysOpenLess
  <1>9. QED
    BY <1>3, <1>8 DEF Guarded, s, i

\* The queues hold packets that arrived.
LEMMA StepSizes ==
  ASSUME queue \in [Gate -> Seq(PacketSizes)], [Next]_vars
  PROVE  queue' \in [Gate -> Seq(PacketSizes)]
  <1> USE DEF queuingVars, queueVars, tsaAndGateVars, selectionVars
  <1>1. ASSUME NEW g \in Gate, GateEvent(g) PROVE queue' \in [Gate -> Seq(PacketSizes)]
    <2>1. CASE QueueHandleRequestPacket(g)
      <3>1. queue[g] \in Seq(PacketSizes) /\ queue[g] # <<>>
        BY <2>1 DEF QueueHandleRequestPacket, QueueIsEmpty
      <3>2. Tail(queue[g]) \in Seq(PacketSizes)
        BY <3>1, HeadTailProperties
      <3>3. QED
        BY <2>1, <3>2 DEF QueueHandleRequestPacket, Dequeue
    <2>2. CASE ~QueueHandleRequestPacket(g)
      BY <1>1, <2>2 DEF GateEvent, TSAHandleRequestPacket, TSAHandlePacketEnqueued,
                        TSAHandleGateStateChanged, GateHandleRequestPacket,
                        GateHandlePacketEnqueued, GateHandleGateStateChanged
    <2>3. QED
      BY <2>1, <2>2
  <1>2. ASSUME NEW g \in Gate, NEW bits \in PacketSizes, Arrive(g, bits)
        PROVE  queue' \in [Gate -> Seq(PacketSizes)]
    <2>1. Append(queue[g], bits) \in Seq(PacketSizes)
      BY AppendProperties
    <2>2. CASE availableBufferCapacity[g] >= bits
      BY <1>2, <2>1, <2>2 DEF Arrive, Enqueue
    <2>3. CASE ~(availableBufferCapacity[g] >= bits)
      BY <1>2, <2>3 DEF Arrive, Enqueue
    <2>4. QED
      BY <2>2, <2>3
  <1>3. CASE UNCHANGED queue
    BY <1>3
  <1>4. QED
    BY <1>1, <1>2, <1>3
       DEF Next, EventLoop, ControllerTick, SetGateStates, PacketEvent, TSAHandlePacket,
           GateHandlePacket, SelectionHandlePacket, MacHandleUpperPacket, SelectionEvent,
           SelectionHandleRequestPacket, SelectionHandlePacketEnqueued,
           MacHandleEndTxPeriod, MacHandleEndIFGPeriod, RequestNextFrame, RequestPacket,
           Elapse, SwapSchedule, vars

\* The frame on the wire and the packet on its way to it.
LEMMA StepGuards ==
  ASSUME LengthAware, SwapSchedules = {},
         \A bits \in PacketSizes : MinFrame <= bits + Overhead,
         ServiceInv, StartInv, StartInv', GuardInv, [Next]_vars
  PROVE  GuardInv'
  <1> USE DEF queuingVars, queueVars, tsaAndGateVars, selectionVars, macVars
  <1>1. TypeInv /\ Protocol /\ OnWire /\ queue \in [Gate -> Seq(PacketSizes)]
        /\ PacketsGuarded /\ FrameGuarded
    BY DEF ServiceInv, ProtocolInv, GuardInv
  <1>2. queue' \in [Gate -> Seq(PacketSizes)]
    BY <1>1, StepSizes
  <1>3. \A packet \in inTransit : packet \in Transit /\ FrameTime(packet.bits) \in Nat
    BY <1>1, OverheadAssumption, WireAssumption
       DEF TypeInv, TypeOK, QueuingTypeOK, Transit, FrameTime
  <1>4. macTimer \in Nat
    BY <1>1 DEF TypeInv, TypeOK
  <1>5. CASE currentSchedule = <<>>
    <2>1. Asked
      BY <1>5 DEF StartInv
    <2>2. CASE currentSchedule' = <<>>
      <3>1. Asked'
        BY <2>2 DEF StartInv
      <3>2. QED
        BY <1>2, <3>1 DEF GuardInv, PacketsGuarded, FrameGuarded, Asked
    <2>3. CASE currentSchedule' # <<>>
      <3>1. ControllerTick
        BY <1>5, <2>3, ControllerSteps
           DEF Elapse, ControllerElapse, SwapSchedule, LoadSchedule, controllerVars
      <3>2. inTransit' = {} /\ transmitState' = "TX_IDLE"
        BY <2>1, <3>1 DEF ControllerTick, SetGateStates, Asked
      <3>3. QED
        BY <1>2, <3>2 DEF GuardInv, PacketsGuarded, FrameGuarded
    <2>4. QED
      BY <2>2, <2>3
  <1>6. CASE currentSchedule # <<>>
    <2> SUFFICES PacketsGuarded' /\ FrameGuarded'
      BY <1>2 DEF GuardInv
    <2>1. ASSUME NEW packet \in inTransit, ControllerTick \/ UNCHANGED controllerVars
          PROVE  Guarded(packet.gate, FrameTime(packet.bits))'
      <3> DEFINE g == packet.gate
                 left == FrameTime(packet.bits)
      <3>1. Guarded(g, left) /\ left \in Nat
        BY <1>1, <1>3 DEF PacketsGuarded
      <3> HIDE DEF g, left
      <3>2. Guarded(g, left)'
        BY <1>6, <2>1, <3>1, GuardLasts
      <3>3. QED
        BY <3>2 DEF g, left
    <2>2. ASSUME ControllerTick \/ UNCHANGED controllerVars, UNCHANGED macVars
          PROVE  FrameGuarded'
      <3>1. CASE transmitState = "TRANSMITTING"
        <4>1. PICK g \in Gate, left \in Nat : g = curTxFrame /\ left = macTimer
          BY <1>1, <1>4, <3>1  DEF OnWire
        <4>2. Guarded(g, left)
          BY <1>1, <3>1, <4>1 DEF FrameGuarded
        <4>3. Guarded(g, left)'
          BY <1>6, <2>2, <4>2, GuardLasts
        <4>4. curTxFrame' = g /\ macTimer' = left
          BY <2>2, <4>1
        <4>5. QED
          BY <4>3, <4>4 DEF Guarded, FrameGuarded
      <3>2. CASE transmitState # "TRANSMITTING"
        BY <2>2, <3>2 DEF FrameGuarded
      <3>3. QED
        BY <3>1, <3>2
    <2>3. ASSUME ControllerTick \/ UNCHANGED controllerVars,
                 UNCHANGED <<inTransit, macVars>>
          PROVE  PacketsGuarded' /\ FrameGuarded'
      <3>1. PacketsGuarded'
        BY <2>1, <2>3 DEF PacketsGuarded
      <3>2. QED
        BY <2>2, <2>3, <3>1
    <2>4. CASE ControllerTick
      BY <2>3, <2>4 DEF ControllerTick, SetGateStates
    <2>5. CASE Elapse
      <3>1. inTransit' = {} /\ (transmitState = "TRANSMITTING" => macTimer # 0)
        BY <2>5 DEF Elapse, InstantOver, Priority0Quiet, QueuingQuiet, ChainInProgress,
                    MacQuiet
      <3>2. CASE transmitState = "TRANSMITTING"
        <4>1. PICK g \in Gate, left \in Nat : g = curTxFrame /\ left = macTimer
          BY <1>1, <1>4, <3>2 DEF OnWire
        <4>2. Guarded(g, left) /\ left # 0
          BY <1>1, <3>1, <3>2, <4>1 DEF FrameGuarded
        <4>3. Guarded(g, left - 1)'
          BY <1>6, <2>5, <4>2, GuardLasts
        <4>4. curTxFrame' = g /\ macTimer' = left - 1
          BY <2>5, <3>1, <3>2, <4>1 DEF Elapse
        <4>5. QED
          BY <3>1, <4>3, <4>4 DEF Guarded, PacketsGuarded, FrameGuarded
      <3>3. CASE transmitState # "TRANSMITTING"
        BY <2>5, <3>1, <3>3 DEF Elapse, PacketsGuarded, FrameGuarded
      <3>4. QED
        BY <3>2, <3>3
    <2>6. ASSUME NEW g \in Gate, GateEvent(g) PROVE PacketsGuarded' /\ FrameGuarded'
      <3>1. UNCHANGED <<controllerVars, macVars>>
        BY <2>6 DEF GateEvent
      <3>2. CASE QueueHandleRequestPacket(g)
        <4>1. queueRequest[g] # NotScheduled
          BY <3>2 DEF QueueHandleRequestPacket
        <4>2. Climbing(g)
          BY <1>1, <4>1 DEF Protocol, Asked, Waiting, Climbing, AtGate, AtTSA, AtQueue,
                            Descending, Delivered, Busy, NobodyAsked, NoRequest
        <4>3. PICK h \in Gate, bits \in {Head(queue[g])} : h = g
          OBVIOUS
        <4>4. Guarded(h, FrameTime(bits))
          BY <1>1, <1>6, <4>2, <4>3, LeavesGuarded DEF Climbing, ControllerQuiet
        <4>5. Guarded(h, FrameTime(bits))'
          BY <3>1, <4>4 DEF Guarded, controllerVars, CurrentIndex
        <4>6. inTransit' = {[to |-> "TSAlgorithm", gate |-> h, bits |-> bits]}
          BY <3>2, <4>2, <4>3 DEF QueueHandleRequestPacket, Climbing
        <4>7. PacketsGuarded'
          BY <4>5, <4>6 DEF PacketsGuarded
        <4>8. QED
          BY <2>2, <3>1, <4>7
      <3>3. CASE ~QueueHandleRequestPacket(g)
        <4>1. UNCHANGED inTransit
          BY <2>6, <3>3
             DEF GateEvent, TSAHandleRequestPacket, TSAHandlePacketEnqueued,
                 TSAHandleGateStateChanged, GateHandleRequestPacket,
                 GateHandlePacketEnqueued, GateHandleGateStateChanged
        <4>2. QED
          BY <2>3, <3>1, <4>1
      <3>4. QED
        BY <3>2, <3>3
    <2>7. ASSUME NEW packet \in inTransit, PacketEvent(packet)
          PROVE  PacketsGuarded' /\ FrameGuarded'
      <3>1. UNCHANGED <<controllerVars, macVars>>
        BY <2>7 DEF PacketEvent
      <3>2. PICK to \in Hop :
              inTransit' = (inTransit \ {packet}) \cup {[packet EXCEPT !.to = to]}
        BY <2>7 DEF PacketEvent, TSAHandlePacket, GateHandlePacket, SelectionHandlePacket,
                    Forward, Hop
      <3>3. /\ [packet EXCEPT !.to = to].gate = packet.gate
            /\ [packet EXCEPT !.to = to].bits = packet.bits
        BY <1>3 DEF Transit
      <3>4. PacketsGuarded'
        <4> SUFFICES ASSUME NEW p \in inTransit' PROVE Guarded(p.gate, FrameTime(p.bits))'
          BY DEF PacketsGuarded
        <4>1. PICK q \in inTransit : p.gate = q.gate /\ p.bits = q.bits
          BY <3>2, <3>3
        <4>2. Guarded(q.gate, FrameTime(q.bits))'
          BY <2>1, <3>1
        <4>3. QED
          BY <4>1, <4>2
      <3>5. QED
        BY <2>2, <3>1, <3>4
    <2>8. ASSUME NEW packet \in inTransit, MacHandleUpperPacket(packet)
          PROVE  PacketsGuarded' /\ FrameGuarded'
      <3>1. /\ UNCHANGED controllerVars /\ inTransit' \subseteq inTransit
            /\ curTxFrame' = packet.gate /\ macTimer' = FrameTime(packet.bits)
        BY <2>8 DEF MacHandleUpperPacket
      <3>2. PacketsGuarded'
        BY <2>1, <3>1 DEF PacketsGuarded
      <3>3. Guarded(packet.gate, FrameTime(packet.bits))'
        BY <2>1, <3>1
      <3>4. FrameGuarded'
        BY <3>1, <3>3 DEF Guarded, FrameGuarded
      <3>5. QED
        BY <3>2, <3>4
    <2>9. CASE MacHandleEndTxPeriod
      <3>1. UNCHANGED <<controllerVars, inTransit>> /\ transmitState' = "WAIT_IFG"
        BY <2>9 DEF MacHandleEndTxPeriod
      <3>2. PacketsGuarded'
        BY <2>1, <3>1 DEF PacketsGuarded
      <3>3. QED
        BY <3>1, <3>2 DEF FrameGuarded
    <2>10. CASE MacHandleEndIFGPeriod
      <3>1. UNCHANGED <<controllerVars, inTransit>> /\ transmitState' = "TX_IDLE"
        BY <2>10 DEF MacHandleEndIFGPeriod, RequestNextFrame, RequestPacket
      <3>2. PacketsGuarded'
        BY <2>1, <3>1 DEF PacketsGuarded
      <3>3. QED
        BY <3>1, <3>2 DEF FrameGuarded
    <2>11. CASE SelectionEvent
      BY <2>3, <2>11 DEF SelectionEvent, SelectionHandleRequestPacket,
                         SelectionHandlePacketEnqueued
    <2>12. ASSUME NEW g \in Gate, NEW bits \in PacketSizes, Arrive(g, bits)
           PROVE  PacketsGuarded' /\ FrameGuarded'
      BY <2>3, <2>12 DEF Arrive, Enqueue
    <2>13. CASE UNCHANGED vars
      BY <2>3, <2>13 DEF vars
    <2>14. ASSUME NEW w \in SwapSchedules PROVE FALSE
      OBVIOUS
    <2>15. QED
      BY <2>4, <2>5, <2>6, <2>7, <2>8, <2>9, <2>10, <2>11, <2>12, <2>13, <2>14
         DEF Next, EventLoop
  <1>7. QED
    BY <1>5, <1>6

LEMMA GuardSuffices ==
  ASSUME ServiceInv, StartInv, GuardInv
  PROVE  GuardBand
  <1> SUFFICES ASSUME transmitState = "TRANSMITTING", ~(macTimer < ClockRate)
               PROVE  curTxFrame \in gateOpen
    BY DEF GuardBand
  <1> DEFINE s == currentSchedule
             i == CurrentIndex
  <1>1. s # <<>>
    BY DEF StartInv, Asked
  <1>2. /\ s \in Schedule /\ i \in 0 .. Len(s) - 1 /\ sinceLastChange \in Nat
        /\ gateOpen = OpensAt(s, i)
    BY <1>1, InEntry
  <1>3. /\ macTimer \in Nat
        /\ StaysOpen(s, i, curTxFrame, macTimer - (ClockRate - 1) + sinceLastChange)
    BY DEF GuardInv, FrameGuarded, Guarded, ServiceInv, ProtocolInv, TypeInv, TypeOK
  <1> HIDE DEF s, i
  <1>4. i \in Nat /\ Begins(s, i) \in Int
    BY <1>1, <1>2, BeginsAdd
  <1>5. Begins(s, i) - Begins(s, i) < macTimer - (ClockRate - 1) + sinceLastChange
    BY <1>2, <1>3, <1>4, ClockRateAssumption
  <1>6. curTxFrame \in OpensAt(s, i)
    BY <1>3, <1>4, <1>5 DEF StaysOpen
  <1>7. QED
    BY <1>2, <1>6

LEMMA InitStart == Init => StartInv
  <1> SUFFICES ASSUME Init PROVE StartInv
    OBVIOUS
  <1>1. ControllerInv
    BY ControllerInitInv DEF Init
  <1>2. ~onHold /\ currentSchedule = <<>> /\ untilTick = 0
    BY PlainAssumption DEF Init, ControllerInit, HoldsFirstEntry
  <1>3. Asked
    BY DEF Init, QueuingInit, Asked, Flags, NobodyAsked, NoRequest
  <1>4. QED
    BY <1>1, <1>2, <1>3 DEF StartInv

LEMMA StepOnWire == ServiceInv /\ [Next]_vars => OnWire'
  BY StepServes

LEMMA StartHolds ==
  ASSUME LookaheadIsFinal
  PROVE  Spec => [](ServiceInv /\ StartInv)
  <1>1. Init => OnWire
    BY DEF Init, OnWire
  <1>2. ProtocolInv /\ StartInv /\ [Next]_vars => StartInv'
    BY StepStart
  <1>3. QED
    BY <1>1, <1>2, InitStart, StepOnWire, ProtocolHolds, PTL DEF Spec, ServiceInv

\* The guard band holds for every gate control list, packet and clock: when a
\* gate closes, the frame that came through it has less than one tick of the
\* clock to go.  The lookahead must be told the truth, so no schedule may be
\* swapped in behind its back, and the MAC must not pad frames beyond the
\* length that the lookahead counted.
THEOREM GuardBandHolds ==
  ASSUME LengthAware, SwapSchedules = {},
         \A bits \in PacketSizes : MinFrame <= bits + Overhead
  PROVE  Spec => []GuardBand
  <1>1. Init => GuardInv
    <2> SUFFICES ASSUME Init PROVE GuardInv
      OBVIOUS
    <2>1. queue = [g \in Gate |-> <<>>] /\ inTransit = {} /\ transmitState = "TX_IDLE"
      BY DEF Init, QueuingInit
    <2>2. <<>> \in Seq(PacketSizes)
      BY EmptySeq
    <2>3. QED
      BY <2>1, <2>2 DEF GuardInv, PacketsGuarded, FrameGuarded
  <1>2. LookaheadIsFinal
    BY DEF LookaheadIsFinal
  <1>3. Spec => [](ServiceInv /\ StartInv)
    BY <1>2, StartHolds
  <1>4. ServiceInv /\ StartInv /\ StartInv' /\ GuardInv /\ [Next]_vars => GuardInv'
    BY StepGuards
  <1>5. ServiceInv /\ StartInv /\ GuardInv => GuardBand
    BY GuardSuffices
  <1>6. QED
    BY <1>1, <1>3, <1>4, <1>5, PTL DEF Spec

-----------------------------------------------------------------------------
(* Work conservation *)

\* The transmission selection has been told, or will be at this instant, that
\* gate g may have become ready.
Notified(g) ==
  \/ selectionPacketEnqueued
  \/ g \in tsaPacketEnqueued \cup gatePacketEnqueued \cup gateStateChanged

WakeUpInv ==
  /\ gateStateChanged # {} => untilTick # 0
  /\ packetRequestedFromInputs => \A g \in Gate : MaySend(g) => Notified(g)

\* A request that waits for inputs waits in a port that has come to life.
LEMMA WaitsAlive ==
  ASSUME Protocol, StartInv, packetRequestedFromInputs
  PROVE  Waiting /\ currentSchedule # <<>>
  <1>1. Waiting
    BY DEF Protocol, Asked, Climbing, Descending, Delivered, Busy, Flags
  <1>2. ~Asked
    BY DEF Asked, Flags
  <1>3. QED
    BY <1>1, <1>2 DEF StartInv

\* A packet becomes ready only by a change of gates, or by joining an empty queue.
LEMMA MaySendAfterTick ==
  ASSUME TypeInv, StartInv, currentSchedule # <<>>, ControllerTick, NEW g \in Gate,
         MaySend(g)', g \in gateOpen
  PROVE  MaySend(g)
  <1> DEFINE bits == Head(queue[g]) + Overhead
             s == currentSchedule
             i == CurrentIndex
  <1>1. queue' = queue
    BY DEF ControllerTick, SetGateStates, queueVars
  <1>2. queue[g] # <<>> /\ bits <= MTU
    BY <1>1 DEF MaySend
  <1>3. ASSUME LengthAware, bits # 0
        PROVE  StaysOpen(s, i, g, bits + ClockTimeSinceLastChange)
    <2>1. /\ s \in Schedule /\ i \in 0 .. Len(s) - 1
          /\ currentSchedule' = s /\ CurrentIndex' = (i + 1) % Len(s)
          /\ sinceLastChange = Duration(s, i) /\ sinceLastChange' = 0
          /\ gateOpen = Object(s, i)
      BY <1>3, TickApplies
    <2>2. ClockTimeSinceLastChange = Duration(s, i)
      BY <2>1, ClockTicksAtEnds
    <2>3. ClockTimeSinceLastChange' = 0
      <3>1. 0 \div ClockRate = 0
        BY ClockRateAssumption
      <3>2. 0 * ClockRate = 0
        BY ClockRateAssumption
      <3>3. QED
        BY <2>1, <3>1, <3>2 DEF ClockTimeSinceLastChange
    <2>4. StaysOpen(s, (i + 1) % Len(s), g, bits + 0)
      BY <1>1, <1>3, <2>1, <2>3 DEF MaySend
    <2>5. bits \in Int
      <3>1. queue[g] \in Seq(Nat)
        BY DEF TypeInv, TypeOK, QueuingTypeOK
      <3>2. Head(queue[g]) \in Nat
        BY <1>2, <3>1, HeadTailProperties
      <3>3. QED
        BY <3>2, OverheadAssumption
    <2>6. bits + 0 = bits
      BY <2>5
    <2>7. StaysOpen(s, i, g, bits + Duration(s, i))
      BY <2>1, <2>4, <2>5, <2>6, EntryBefore
    <2>8. QED
      BY <2>2, <2>7
  <1>4. QED
    BY <1>2, <1>3 DEF MaySend

LEMMA MaySendAfterElapse ==
  ASSUME TypeInv, StartInv, currentSchedule # <<>>, Elapse, NEW g \in Gate, MaySend(g)'
  PROVE  MaySend(g)
  <1> DEFINE bits == Head(queue[g]) + Overhead
             s == currentSchedule
             i == CurrentIndex
  <1>1. /\ queue' = queue /\ gateOpen' = gateOpen
        /\ UNCHANGED <<currentSchedule, scheduleIndex>>
    BY DEF Elapse, ControllerElapse, queuingVars, queueVars
  <1>2. g \in gateOpen /\ queue[g] # <<>> /\ bits <= MTU
    BY <1>1 DEF MaySend
  <1>3. ASSUME LengthAware, bits # 0
        PROVE  StaysOpen(s, i, g, bits + ClockTimeSinceLastChange)
    <2>1. s \in Schedule /\ s # <<>> /\ i \in 0 .. Len(s) - 1 /\ sinceLastChange \in Nat
      BY InEntry
    <2>2. CurrentIndex' = i
      BY <1>1 DEF CurrentIndex
    <2>3. sinceLastChange' = sinceLastChange + 1
      <3>1. untilTick # Never
        BY InEntry, NeverIsNoTime
      <3>2. QED
        BY <3>1 DEF Elapse, ControllerElapse
    <2>4. ClockTimeSinceLastChange <= ClockTimeSinceLastChange'
      BY <2>1, <2>3, ClockGoesOn
    <2>5. ClockTimeSinceLastChange \in Nat
      BY <2>1, ClockLags
    <2>6. ClockTimeSinceLastChange' \in Nat
      <3>1. \A n \in Nat, r \in Nat \ {0} : (n \div r) * r \in Nat
        OBVIOUS
      <3>2. sinceLastChange' \in Nat
        BY <2>1, <2>3
      <3>3. QED
        BY <3>1, <3>2, ClockRateAssumption DEF ClockTimeSinceLastChange
    <2>7. StaysOpen(s, i, g, bits + ClockTimeSinceLastChange')
      BY <1>1, <1>3, <2>2 DEF MaySend
    <2>8. bits \in Int
      <3>1. queue[g] \in Seq(Nat)
        BY DEF TypeInv, TypeOK, QueuingTypeOK
      <3>2. Head(queue[g]) \in Nat
        BY <1>2, <3>1, HeadTailProperties
      <3>3. QED
        BY <3>2, OverheadAssumption
    <2> DEFINE a == bits + ClockTimeSinceLastChange
               b == bits + ClockTimeSinceLastChange'
    <2>9. a \in Int /\ b \in Int /\ a <= b /\ i \in Nat
      BY <2>1, <2>4, <2>5, <2>6, <2>8
    <2> HIDE DEF s, i, bits
    <2>10. StaysOpen(s, i, g, a)
      BY <2>1, <2>7, <2>9, StaysOpenLess
    <2>11. QED
      BY <2>10
  <1>4. QED
    BY <1>2, <1>3 DEF MaySend

\* What is ready depends only on the controller and on the packet at the head
\* of the queue.
LEMMA MaySendAlike ==
  ASSUME NEW g \in Gate, UNCHANGED controllerVars, MaySend(g)',
         queue[g] # <<>>, Head(queue'[g]) = Head(queue[g])
  PROVE  MaySend(g)
  <1>1. ClockTimeSinceLastChange' = ClockTimeSinceLastChange
        /\ CurrentIndex' = CurrentIndex /\ currentSchedule' = currentSchedule
        /\ gateOpen' = gateOpen
    BY DEF controllerVars, ClockTimeSinceLastChange, CurrentIndex
  <1>2. QED
    BY <1>1 DEF MaySend

LEMMA StepWakeUp ==
  ASSUME LookaheadIsFinal, ProtocolInv, Protocol', StartInv, StartInv', WakeUpInv, [Next]_vars
  PROVE  WakeUpInv'
  <1> USE DEF queuingVars, queueVars, tsaAndGateVars, selectionVars, macVars
  <1>1. TypeInv /\ Protocol
    BY DEF ProtocolInv
  <1>2. \A g \in Gate : packetRequestedFromInputs /\ MaySend(g) => Notified(g)
    BY DEF WakeUpInv
  <1>3. ASSUME packetRequestedFromInputs'
        PROVE  currentSchedule' # <<>>
    BY <1>3 DEF StartInv, Asked, Flags
  <1>4. ASSUME UNCHANGED <<controllerVars, packetRequestedFromInputs>>,
               gateStateChanged' \subseteq gateStateChanged,
               \A g \in Gate : Waiting /\ MaySend(g)' => Notified(g)'
        PROVE  WakeUpInv'
    <2>1. packetRequestedFromInputs' => Waiting
      BY <1>1, <1>4, WaitsAlive
    <2>2. untilTick' = untilTick
      BY <1>4 DEF controllerVars
    <2>3. QED
      BY <1>4, <2>1, <2>2 DEF WakeUpInv
  <1>5. ASSUME UNCHANGED <<controllerVars, packetRequestedFromInputs, queue>>,
               gateStateChanged' \subseteq gateStateChanged,
               \A g \in Gate : Waiting /\ MaySend(g) /\ Notified(g) => Notified(g)'
        PROVE  WakeUpInv'
    <2>1. ASSUME NEW g \in Gate, Waiting, MaySend(g)' PROVE Notified(g)'
      <3>1. queue[g] # <<>>
        BY <1>5, <2>1 DEF MaySend
      <3>2. MaySend(g)
        BY <1>5, <2>1, <3>1, MaySendAlike
      <3>3. packetRequestedFromInputs
        BY <2>1 DEF Waiting, Flags
      <3>4. QED
        BY <1>2, <1>5, <2>1, <3>2, <3>3
    <2>2. QED
      BY <1>4, <1>5, <2>1
  <1>6. CASE ControllerTick
    <2>1. UNCHANGED <<queue, packetRequestedFromInputs, selectionPacketEnqueued,
                      tsaPacketEnqueued, gatePacketEnqueued>>
          /\ gateStateChanged' = gateStateChanged \cup
                 ((gateOpen \ gateOpen') \cup (gateOpen' \ gateOpen))
      BY <1>6 DEF ControllerTick, SetGateStates
    <2>2. untilTick' # 0
      <3>1. /\ currentSchedule' = TickSchedule /\ currentSchedule' \in Schedule
            /\ scheduleIndex \in 0 .. Len(currentSchedule') - 1
        BY <1>6, TickEntryInv DEF ControllerTick, StartInv
      <3>2. untilTick' = Duration(TickSchedule, scheduleIndex)
        BY <1>6 DEF ControllerTick, TickEntry
      <3>3. Duration(TickSchedule, scheduleIndex) > 0
            /\ Duration(TickSchedule, scheduleIndex) \in Nat
        BY <3>1, Durations
      <3>4. QED
        BY <3>2, <3>3
    <2>3. ASSUME NEW g \in Gate, packetRequestedFromInputs', MaySend(g)'
          PROVE  Notified(g)'
      <3>1. packetRequestedFromInputs /\ currentSchedule # <<>>
        BY <1>1, <2>1, <2>3, WaitsAlive
      <3>2. CASE g \in gateOpen
        <4>1. MaySend(g)
          BY <1>1, <1>6, <2>3, <3>1, <3>2, MaySendAfterTick
        <4>2. Notified(g)
          BY <1>2, <3>1, <4>1
        <4>3. QED
          BY <2>1, <4>2 DEF Notified
      <3>3. CASE g \notin gateOpen
        <4>1. g \in gateOpen'
          BY <2>3 DEF MaySend
        <4>2. QED
          BY <2>1, <3>3, <4>1 DEF Notified
      <3>4. QED
        BY <3>2, <3>3
    <2>4. QED
      BY <2>2, <2>3 DEF WakeUpInv
  <1>7. CASE Elapse
    <2>1. UNCHANGED <<queue, packetRequestedFromInputs, selectionPacketEnqueued,
                      tsaPacketEnqueued, gatePacketEnqueued, gateStateChanged>>
          /\ gateStateChanged = {}
      BY <1>7 DEF Elapse, InstantOver, Priority0Quiet, QueuingQuiet, NotificationDue
    <2>2. ASSUME NEW g \in Gate, packetRequestedFromInputs', MaySend(g)'
          PROVE  Notified(g)'
      <3>1. packetRequestedFromInputs /\ currentSchedule # <<>>
        BY <1>1, <2>1, <2>2, WaitsAlive
      <3>2. MaySend(g)
        BY <1>1, <1>7, <2>2, <3>1, MaySendAfterElapse
      <3>3. Notified(g)
        BY <1>2, <3>1, <3>2
      <3>4. QED
        BY <2>1, <3>3 DEF Notified
    <2>3. QED
      BY <2>1, <2>2 DEF WakeUpInv
  <1>8. ASSUME NEW w \in SwapSchedules, SwapSchedule(w) PROVE WakeUpInv'
    <2>1. ~LengthAware
      BY <1>8 DEF LookaheadIsFinal
    <2>2. UNCHANGED <<queue, packetRequestedFromInputs, selectionPacketEnqueued,
                      tsaPacketEnqueued, gatePacketEnqueued, gateStateChanged,
                      untilTick, gateOpen>>
      BY <1>8 DEF SwapSchedule, LoadSchedule
    <2>3. ASSUME NEW g \in Gate, MaySend(g)' PROVE MaySend(g)
      BY <2>1, <2>2, <2>3 DEF MaySend
    <2>4. ASSUME NEW g \in Gate, packetRequestedFromInputs', MaySend(g)'
          PROVE  Notified(g)'
      <3>1. Notified(g)
        BY <1>2, <2>2, <2>3, <2>4
      <3>2. QED
        BY <2>2, <3>1 DEF Notified
    <2>5. QED
      BY <2>2, <2>4 DEF WakeUpInv
  <1>9. ASSUME NEW h \in Gate, GateEvent(h) PROVE WakeUpInv'
    <2>1. UNCHANGED controllerVars
      BY <1>9 DEF GateEvent
    <2>2. CASE QueueHandleRequestPacket(h)
      <3>1. /\ queueRequest[h] # NotScheduled
            /\ UNCHANGED <<packetRequestedFromInputs, gateStateChanged>>
        BY <2>2 DEF QueueHandleRequestPacket
      <3>2. ~Waiting
        BY <3>1 DEF Waiting, NobodyAsked, NoRequest
      <3>3. QED
        BY <1>4, <2>1, <3>1, <3>2
    <2>3. CASE TSAHandleRequestPacket(h) \/ TSAHandleGateStateChanged(h)
               \/ GateHandleRequestPacket(h)
      <3>1. UNCHANGED <<queue, packetRequestedFromInputs, selectionPacketEnqueued,
                        tsaPacketEnqueued, gatePacketEnqueued, gateStateChanged>>
        BY <2>3 DEF TSAHandleRequestPacket, TSAHandleGateStateChanged, GateHandleRequestPacket
      <3>2. \A g \in Gate : Notified(g) => Notified(g)'
        BY <3>1 DEF Notified
      <3>3. QED
        BY <1>5, <2>1, <3>1, <3>2
    <2>4. CASE TSAHandlePacketEnqueued(h)
      <3>1. /\ UNCHANGED <<queue, packetRequestedFromInputs, selectionPacketEnqueued,
                           gateStateChanged>>
            /\ tsaPacketEnqueued' = tsaPacketEnqueued \ {h}
            /\ gatePacketEnqueued' = gatePacketEnqueued \cup {h}
        BY <2>4 DEF TSAHandlePacketEnqueued
      <3>2. \A g \in Gate : Notified(g) => Notified(g)'
        BY <3>1 DEF Notified
      <3>3. QED
        BY <1>5, <2>1, <3>1, <3>2
    <2>5. CASE GateHandlePacketEnqueued(h)
      <3>1. /\ UNCHANGED <<queue, packetRequestedFromInputs, tsaPacketEnqueued,
                           gateStateChanged>>
            /\ gatePacketEnqueued' = gatePacketEnqueued \ {h}
            /\ selectionPacketEnqueued' =
                 (selectionPacketEnqueued \/ (h \in gateOpen /\ PassesHold(h)))
        BY <2>5 DEF GateHandlePacketEnqueued
      <3>2. PassesHold(h)
        BY DEF StartInv, PassesHold
      <3>3. \A g \in Gate : MaySend(g) /\ Notified(g) => Notified(g)'
        BY <3>1, <3>2 DEF Notified, MaySend
      <3>4. QED
        BY <1>5, <2>1, <3>1, <3>3
    <2>6. CASE GateHandleGateStateChanged(h)
      <3>1. /\ h \in gateStateChanged
            /\ UNCHANGED <<queue, packetRequestedFromInputs, tsaPacketEnqueued,
                           gatePacketEnqueued>>
            /\ gateStateChanged' = gateStateChanged \ {h}
            /\ selectionPacketEnqueued' = (selectionPacketEnqueued \/ ~GateIsEmpty(h))
        BY <2>6 DEF GateHandleGateStateChanged
      <3>2. ASSUME Waiting, MaySend(h) PROVE ~GateIsEmpty(h)
        <4>1. untilTick # 0
          BY <3>1 DEF WakeUpInv
        <4>2. currentSchedule # <<>>
          BY <1>1, <3>2, WaitsAlive DEF Waiting, Flags
        <4>3. QED
          BY <1>1, <3>2, <4>1, <4>2, ReadyMaySend
      <3>3. \A g \in Gate : Waiting /\ MaySend(g) /\ Notified(g) => Notified(g)'
        BY <3>1, <3>2 DEF Notified
      <3>4. QED
        BY <1>5, <2>1, <3>1, <3>3
    <2>7. QED
      BY <1>9, <2>2, <2>3, <2>4, <2>5, <2>6 DEF GateEvent
  <1>10. ASSUME UNCHANGED <<controllerVars, queue, packetRequestedFromInputs,
                            selectionPacketEnqueued, tsaPacketEnqueued,
                            gatePacketEnqueued, gateStateChanged>>
         PROVE  WakeUpInv'
    <2>1. \A g \in Gate : Notified(g) => Notified(g)'
      BY <1>10 DEF Notified
    <2>2. QED
      BY <1>5, <1>10, <2>1
  <1>11. ASSUME NEW packet \in inTransit, PacketEvent(packet) PROVE WakeUpInv'
    BY <1>10, <1>11 DEF PacketEvent, TSAHandlePacket, GateHandlePacket, SelectionHandlePacket
  <1>12. ASSUME NEW packet \in inTransit, MacHandleUpperPacket(packet) PROVE WakeUpInv'
    BY <1>10, <1>12 DEF MacHandleUpperPacket
  <1>13. CASE MacHandleEndTxPeriod
    BY <1>10, <1>13 DEF MacHandleEndTxPeriod
  <1>14. CASE MacHandleEndIFGPeriod
    BY <1>10, <1>14 DEF MacHandleEndIFGPeriod, RequestNextFrame, RequestPacket
  <1>15. CASE SelectionEvent
    <2>1. /\ UNCHANGED <<controllerVars, queue, gateStateChanged>> /\ untilTick # 0
          /\ packetRequestedFromInputs' => NothingToSelect
      BY <1>15 DEF SelectionEvent, SelectionTurn, Priority0Quiet, ControllerQuiet,
                   SelectionHandleRequestPacket, SelectionHandlePacketEnqueued,
                   SchedulePacket
    <2>2. UNCHANGED <<untilTick, currentSchedule>>
      BY <2>1 DEF controllerVars
    <2>3. ASSUME NEW g \in Gate, packetRequestedFromInputs', MaySend(g)'
          PROVE  FALSE
      <3>1. currentSchedule # <<>>
        BY <1>3, <2>2, <2>3
      <3>2. queue[g] # <<>>
        BY <2>1, <2>3 DEF MaySend
      <3>3. MaySend(g)
        BY <2>1, <2>3, <3>2, MaySendAlike
      <3>4. ~GateIsEmpty(g)
        BY <1>1, <2>1, <3>1, <3>3, ReadyMaySend
      <3>5. QED
        BY <2>1, <2>3, <3>4 DEF NothingToSelect
    <2>4. QED
      BY <2>1, <2>2, <2>3 DEF WakeUpInv
  <1>16. ASSUME NEW h \in Gate, NEW bits \in PacketSizes, Arrive(h, bits) PROVE WakeUpInv'
    <2>1. /\ UNCHANGED <<controllerVars, packetRequestedFromInputs, gateStateChanged,
                         selectionPacketEnqueued, gatePacketEnqueued>>
          /\ tsaPacketEnqueued' = tsaPacketEnqueued \cup {h}
          /\ queue' \in {queue, [queue EXCEPT ![h] = Append(@, bits)]}
      BY <1>16 DEF Arrive, Enqueue
    <2>2. ASSUME NEW g \in Gate, Waiting, MaySend(g)' PROVE Notified(g)'
      <3>1. CASE g = h
        BY <2>1, <3>1 DEF Notified
      <3>2. CASE g # h
        <4>1. queue'[g] = queue[g]
          BY <1>1, <2>1, <3>2 DEF TypeInv, TypeOK, QueuingTypeOK
        <4>2. queue[g] # <<>>
          BY <2>2, <4>1 DEF MaySend
        <4>3. MaySend(g)
          BY <2>1, <2>2, <4>1, <4>2, MaySendAlike
        <4>4. Notified(g)
          BY <1>2, <2>2, <4>3 DEF Waiting, Flags
        <4>5. QED
          BY <2>1, <4>4 DEF Notified
      <3>3. QED
        BY <3>1, <3>2
    <2>3. QED
      BY <1>4, <2>1, <2>2
  <1>17. CASE UNCHANGED vars
    BY <1>10, <1>17 DEF vars
  <1>18. QED
    BY <1>6, <1>7, <1>8, <1>9, <1>11, <1>12, <1>13, <1>14, <1>15, <1>16, <1>17
       DEF Next, EventLoop

LEMMA WakeUpSuffices ==
  ASSUME ProtocolInv, StartInv, WakeUpInv
  PROVE  WorkConserving
  <1> SUFFICES ASSUME InstantOver, transmitState = "TX_IDLE", NEW g \in Gate
               PROVE  GateIsEmpty(g)
    BY DEF WorkConserving, NothingToSelect
  <1>1. TypeInv /\ Protocol
    BY DEF ProtocolInv
  <1>2. ~selectionRequest /\ ~ChainInProgress /\ untilTick # 0 /\ ~Notified(g)
    BY DEF InstantOver, Priority0Quiet, QueuingQuiet, ControllerQuiet, NotificationDue,
           Notified
  <1>3. Waiting
    <2>1. \A h \in Gate : ~Climbing(h)
      BY <1>1, <1>2, ClimbingInProgress
    <2>2. QED
      BY <1>1, <1>2, <2>1 DEF Protocol, Asked, Descending, Delivered, Busy, Flags,
                              ChainInProgress
  <1>4. packetRequestedFromInputs
    BY <1>3 DEF Waiting, Flags
  <1>5. ~MaySend(g)
    BY <1>2, <1>4 DEF WakeUpInv
  <1>6. QED
    BY <1>1, <1>2, <1>4, <1>5, WaitsAlive, ReadyMaySend

\* No wake-up is lost: whatever makes a packet ready, the transmission selection
\* is told of it within the instant, so that an idle MAC leaves no gate waiting
\* that may send.  Under length-aware scheduling this needs that no schedule is
\* swapped in: nobody tells that a packet fits into a window that a swap has
\* made longer.
THEOREM PortConservesWork ==
  ASSUME LengthAware => SwapSchedules = {}
  PROVE  Spec => []WorkConserving
  <1>1. LookaheadIsFinal
    BY DEF LookaheadIsFinal
  <1>2. Spec => [](ServiceInv /\ StartInv)
    BY <1>1, StartHolds
  <1>3. Init => WakeUpInv
    BY DEF Init, QueuingInit, WakeUpInv
  <1>4. ServiceInv /\ ServiceInv' /\ StartInv /\ StartInv' /\ WakeUpInv /\ [Next]_vars
          => WakeUpInv'
    BY <1>1, StepWakeUp DEF ServiceInv, ProtocolInv
  <1>5. ServiceInv /\ StartInv /\ WakeUpInv => WorkConserving
    BY WakeUpSuffices DEF ServiceInv
  <1>6. QED
    BY <1>2, <1>3, <1>4, <1>5, PTL DEF Spec
=============================================================================
