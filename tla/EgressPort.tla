----------------------------- MODULE EgressPort -----------------------------
(***************************************************************************)
(* One egress port of a switch: the queuing network, its gate controller,  *)
(* and the MAC, an EtherMACFullDuplexPreemptable whose                     *)
(* enablePreemptingFrames is false, so that it treats all frames alike.    *)
(*                                                                         *)
(* Time is discrete and passes only when no event is due.  The two         *)
(* self-messages of the transmission selection have scheduling priority 1: *)
(* they are taken only when nothing of priority 0 is due at the instant.   *)
(***************************************************************************)
EXTENDS Queuing

CONSTANTS
  PacketSizes,     \* lengths of the packets that arrive, in bits
  MinFrame,        \* time on the wire of a frame of minimal length
  InterframeGap,
  MaxArrivals      \* bound on the packets of a run

ASSUME PacketSizesAssumption == PacketSizes \subseteq Nat
ASSUME WireAssumption == MinFrame \in Nat \ {0} /\ InterframeGap \in Nat
ASSUME MaxArrivalsAssumption == MaxArrivals \in Nat
\* The MAC does not preempt, so release() and hold() do nothing; a schedule
\* without entries is GateController's subject.
ASSUME PlainAssumption == ~Preemption
ASSUME NonEmptyAssumption == <<>> \notin InitialSchedules \cup SwapSchedules

VARIABLES
  transmitState,
  macTimer,      \* time until endTxMsg or endIFGMsg, 0 if neither is scheduled
  curTxFrame,    \* the gate that the frame on the wire came through
  arrivals

macVars == <<transmitState, macTimer, curTxFrame>>
vars == <<controllerVars, queuingVars, macVars, arrivals>>

NoFrame == -1

TypeOK ==
  /\ ControllerTypeOK
  /\ QueuingTypeOK
  /\ transmitState \in {"TX_IDLE", "TRANSMITTING", "WAIT_IFG"}
  /\ macTimer \in Nat
  /\ curTxFrame \in Gate \cup {NoFrame}
  /\ arrivals \in 0 .. MaxArrivals

Init ==
  /\ ControllerInit
  /\ QueuingInit
  /\ transmitState = "TX_IDLE"
  /\ macTimer = 0
  /\ curTxFrame = NoFrame
  /\ arrivals = 0

-----------------------------------------------------------------------------
(* The MAC *)

\* A frame is padded to the minimal length before it is sent.
FrameTime(bits) ==
  IF bits + Overhead < MinFrame THEN MinFrame ELSE bits + Overhead

\* handleUpperPacket and startFrameTransmission; both assert that nothing is
\* being sent.
MacHandleUpperPacket(packet) ==
  /\ packet \in inTransit
  /\ packet.to = "MAC"
  /\ transmitState = "TX_IDLE"
  /\ inTransit' = inTransit \ {packet}
  /\ transmitState' = "TRANSMITTING"
  /\ macTimer' = FrameTime(packet.bits)
  /\ curTxFrame' = packet.gate
  /\ UNCHANGED <<controllerVars, queueVars, tsaAndGateVars, selectionVars,
                 arrivals>>

\* requestNextFrameFromExtQueue: one pending request at a time.
RequestNextFrame ==
  IF packetRequestedFromUs THEN UNCHANGED queuingVars ELSE RequestPacket

MacHandleEndTxPeriod ==
  /\ transmitState = "TRANSMITTING"
  /\ macTimer = 0
  /\ transmitState' = "WAIT_IFG"
  /\ macTimer' = InterframeGap
  /\ curTxFrame' = NoFrame
  /\ UNCHANGED <<controllerVars, queuingVars, arrivals>>

\* handleEndIFGPeriod, getNextFrameFromQueue and beginSendFrames: there is no
\* frame yet to send, so the MAC becomes idle.
MacHandleEndIFGPeriod ==
  /\ transmitState = "WAIT_IFG"
  /\ macTimer = 0
  /\ RequestNextFrame
  /\ transmitState' = "TX_IDLE"
  /\ UNCHANGED <<controllerVars, macTimer, curTxFrame, arrivals>>

MacQuiet == transmitState = "TX_IDLE" \/ macTimer # 0

-----------------------------------------------------------------------------
(* Composition *)

\* Nothing of scheduling priority 0 is due at this instant.
Priority0Quiet == ControllerQuiet /\ QueuingQuiet /\ MacQuiet

\* The self-messages of the transmission selection have priority 1.
SelectionTurn == Priority0Quiet

\* A packet for gate g.  None gets here before the first tick: the MAC that
\* sends it needs time.
Arrive(g, bits) ==
  /\ arrivals < MaxArrivals
  /\ ~IsEmpty(currentSchedule)
  /\ arrivals' = arrivals + 1
  /\ Enqueue(g, bits)
  /\ UNCHANGED <<controllerVars, macVars>>

ControllerTick ==
  /\ TickEntry
  /\ SetGateStates
  /\ UNCHANGED <<macVars, arrivals>>

\* Mutant: a swap comes while a request climbs to the queue it was granted to.
SwapScheduleAnytime(s) ==
  /\ LoadSchedule(s)
  /\ UNCHANGED <<queuingVars, macVars, arrivals>>

\* ScheduleSwap acts on a clock tick, before the transmission selection has
\* taken its turn at that instant.
SwapSchedule(s) ==
  /\ ~ChainInProgress
  /\ LoadSchedule(s)
  /\ UNCHANGED <<queuingVars, macVars, arrivals>>

\* The queuing network's events that take no parameter but the gate.
GateEvent(g) ==
  /\ \/ QueueHandleRequestPacket(g)
     \/ TSAHandleRequestPacket(g)
     \/ TSAHandlePacketEnqueued(g)
     \/ TSAHandleGateStateChanged(g)
     \/ GateHandleRequestPacket(g)
     \/ GateHandlePacketEnqueued(g)
     \/ GateHandleGateStateChanged(g)
  /\ UNCHANGED <<controllerVars, macVars, arrivals>>

PacketEvent(packet) ==
  /\ \/ TSAHandlePacket(packet)
     \/ GateHandlePacket(packet)
     \/ SelectionHandlePacket(packet)
  /\ UNCHANGED <<controllerVars, macVars, arrivals>>

SelectionEvent ==
  /\ SelectionTurn
  /\ \/ SelectionHandleRequestPacket
     \/ SelectionHandlePacketEnqueued
  /\ UNCHANGED <<controllerVars, macVars, arrivals>>

\* No event is due at this instant.
InstantOver == Priority0Quiet /\ ~selectionRequest /\ ~selectionPacketEnqueued

Elapse ==
  /\ InstantOver
  /\ ControllerElapse
  /\ macTimer' = (IF macTimer = 0 THEN 0 ELSE macTimer - 1)
  /\ UNCHANGED <<queuingVars, transmitState, curTxFrame, arrivals>>

\* What the simulation does by itself.
EventLoop ==
  \/ ControllerTick
  \/ \E g \in Gate : GateEvent(g)
  \/ \E packet \in inTransit : PacketEvent(packet) \/ MacHandleUpperPacket(packet)
  \/ SelectionEvent
  \/ MacHandleEndTxPeriod
  \/ MacHandleEndIFGPeriod
  \/ Elapse

Next ==
  \/ EventLoop
  \/ \E g \in Gate, bits \in PacketSizes : Arrive(g, bits)
  \/ \E s \in SwapSchedules : SwapSchedule(s)

\* The event loop never stops; nothing makes packets arrive.
Spec == Init /\ [][Next]_vars /\ WF_vars(EventLoop)

-----------------------------------------------------------------------------
(* Properties *)

\* Every ASSERT and throw on the way of a request and of a packet: a gate or a
\* queue that is asked for a packet has one that may leave (LengthAwareQueue.cc:97,
\* TSAlgorithm.cc:87, TransmissionGate.cc:88), a packet reaches the transmission
\* selection only on request (TransmissionSelection.cc:77), the MAC requests one
\* packet at a time (TransmissionSelection.cc:121) and is idle when it gets one
\* (EtherMACFullDuplexPreemptable.cc:210).
NoAssertionFails ==
  /\ \A g \in gateRequest : ~GateIsEmpty(g)
  /\ \A g \in Gate : queueRequest[g] # NotScheduled
                      => ~QueueIsEmpty(g, queueRequest[g])
  /\ \A p \in inTransit : /\ p.to = "TransmissionSelection" => packetRequestedFromUs
                          /\ p.to = "MAC" => transmitState = "TX_IDLE"
  /\ selectionRequest /\ SelectionTurn
       => ~packetRequestedFromUs /\ ~packetRequestedFromInputs

\* The guard band: a frame on the wire when its gate closes has less than one
\* clock tick to go.
GuardBand ==
  (transmitState = "TRANSMITTING" /\ curTxFrame \notin gateOpen)
    => macTimer < ClockRate

\* No lost wake-up: when an instant is over and the MAC is idle, no gate has a
\* packet that may leave.
WorkConserving ==
  (InstantOver /\ transmitState = "TX_IDLE") => NothingToSelect

\* The bits that the packets of a queue take.
Total(packets) ==
  LET sum[k \in 0 .. Len(packets)] ==
        IF k = 0 THEN 0 ELSE sum[k - 1] + packets[k]
  IN  sum[Len(packets)]

\* The queue's account of its room is exact: what is free and what is taken add
\* up to the capacity, so a packet is dropped only if it does not fit.
BufferAccounting ==
  \A g \in Gate : availableBufferCapacity[g] + Total(queue[g]) = BufferCapacity

\* What TransmissionGate.h:69 says of a gate without length-aware scheduling:
\* every packet up to the MTU that is ready is fine.
EveryPacketIsFine ==
  ~LengthAware => \A g \in Gate :
    (queue[g] # <<>> /\ Head(queue[g]) <= MTU)
      => ~QueueIsEmpty(g, MaxTransferableBits(g))

\* Gates between the transmission selection's choice and the removal of the
\* packet from its queue.
Chosen ==
  {g \in Gate : \/ g \in gateRequest
                \/ tsaRequest[g] # NotScheduled
                \/ queueRequest[g] # NotScheduled}

Leaving == {p.gate : p \in inTransit}

Service == INSTANCE PortService
  WITH waiting <- [g \in Gate |-> IF g \in Chosen THEN Tail(queue[g]) ELSE queue[g]],
       ready   <- {g \in Gate : ~GateIsEmpty(g)},
       serving <- IF Chosen \cup Leaving # {}
                    THEN CHOOSE g \in Chosen \cup Leaving : TRUE
                    ELSE curTxFrame

\* The chain of events that carries a request up to a queue and a packet down
\* to the MAC amounts to one step: the packet that is sent is the one that
\* strict priority preferred when the transmission selection took its turn, in
\* FIFO order within its class, one at a time.
ServesAtomically == Service!Spec

\* Every packet that was accepted is sent, once no more arrive.
EventuallyDrained == <>[](\A g \in Gate : queue[g] = <<>>)
=============================================================================
