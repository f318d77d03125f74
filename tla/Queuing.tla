------------------------------ MODULE Queuing -------------------------------
(***************************************************************************)
(* The queuing network of one egress port: per traffic class a             *)
(* length-aware queue, a strict-priority transmission selection algorithm  *)
(* (TSA) and a transmission gate, then one transmission selection (TS)     *)
(* that the MAC asks for a packet.                                         *)
(*                                                                         *)
(* No module acts at once on a call of another: packetEnqueued,            *)
(* requestPacket and gateStateChanged cancel and reschedule a self-message *)
(* at the present instant, so every hop of a request is an event of its    *)
(* own, and so is every hop of a packet.  A variable here holds the        *)
(* self-messages or packets that are due at this instant; a handler is     *)
(* one action.  Events of equal priority are taken in any order.           *)
(*                                                                         *)
(* An action is disabled where the code's ASSERT or throw would end the    *)
(* run; NoAssertionFails in EgressPort says that this never happens.       *)
(***************************************************************************)
EXTENDS GateController

CONSTANTS
  BufferCapacity,  \* bits that fit into each queue
  Overhead         \* 240 bits that isEmpty(maxBits) adds for the headers

ASSUME BufferCapacityAssumption == BufferCapacity \in Nat
ASSUME OverheadAssumption == Overhead \in Nat

VARIABLES
  queue,                    \* per gate: the lengths of its waiting packets
  availableBufferCapacity,
  queueRequest,             \* per gate: a queue's requestPacketMsg with its
  tsaRequest,               \* maxTransmittableBits, or NotScheduled; same of a TSA
  tsaPacketEnqueued,        \* gates whose TSA has packetEnqueuedMsg scheduled
  tsaGateStateChanged,      \* ... gateStateChangedMsg
  gateRequest,              \* gates that have requestPacketMsg scheduled
  gatePacketEnqueued,       \* ... packetEnqueuedMsg
  gateStateChanged,         \* ... gateStateChangedMsg
  selectionRequest,         \* TS has requestPacketMsg scheduled
  selectionPacketEnqueued,  \* TS has packetEnqueuedMsg scheduled
  packetRequestedFromUs,
  packetRequestedFromInputs,
  inTransit                 \* packets between two modules at this instant

tsaAndGateVars == <<tsaRequest, tsaPacketEnqueued, tsaGateStateChanged,
                    gateRequest, gatePacketEnqueued, gateStateChanged>>
queueVars == <<queue, availableBufferCapacity, queueRequest>>
selectionVars == <<selectionRequest, selectionPacketEnqueued,
                   packetRequestedFromUs, packetRequestedFromInputs>>
queuingVars == <<queueVars, tsaAndGateVars, selectionVars, inTransit>>

NotScheduled == -1

Hop == {"TSAlgorithm", "TransmissionGate", "TransmissionSelection", "MAC"}
Transit == [to : Hop, gate : Gate, bits : Nat]

QueuingTypeOK ==
  /\ queue \in [Gate -> Seq(Nat)]
  /\ availableBufferCapacity \in [Gate -> Nat]
  /\ queueRequest = [g \in Gate |-> queueRequest[g]]
  /\ tsaRequest = [g \in Gate |-> tsaRequest[g]]
  /\ tsaPacketEnqueued \in SUBSET Gate
  /\ tsaGateStateChanged \in SUBSET Gate
  /\ gateRequest \in SUBSET Gate
  /\ gatePacketEnqueued \in SUBSET Gate
  /\ gateStateChanged \in SUBSET Gate
  /\ selectionRequest \in BOOLEAN
  /\ selectionPacketEnqueued \in BOOLEAN
  /\ packetRequestedFromUs \in BOOLEAN
  /\ packetRequestedFromInputs \in BOOLEAN
  /\ inTransit \in SUBSET Transit

\* At initialization the MAC has asked for its first packet.
QueuingInit ==
  /\ queue = [g \in Gate |-> <<>>]
  /\ availableBufferCapacity = [g \in Gate |-> BufferCapacity]
  /\ queueRequest = [g \in Gate |-> NotScheduled]
  /\ tsaRequest = [g \in Gate |-> NotScheduled]
  /\ tsaPacketEnqueued = {}
  /\ tsaGateStateChanged = {}
  /\ gateRequest = {}
  /\ gatePacketEnqueued = {}
  /\ gateStateChanged = {}
  /\ selectionRequest = TRUE
  /\ selectionPacketEnqueued = FALSE
  /\ packetRequestedFromUs = FALSE
  /\ packetRequestedFromInputs = FALSE
  /\ inTransit = {}

-----------------------------------------------------------------------------
(* What the modules ask of each other without an event *)

\* LengthAwareQueue::isEmpty, which TSAlgorithm::isEmpty delegates to.
QueueIsEmpty(g, maxBits) ==
  queue[g] # <<>> => Head(queue[g]) + Overhead > maxBits

MaxTransferableBits(g) == IF LengthAware THEN CalculateMaxBit(g) ELSE MTU

\* An express gate passes even while the MAC is on hold.
PassesHold(g) == g \in Express \/ ~onHold

\* TransmissionGate::isEmpty
GateIsEmpty(g) ==
  ~ /\ g \in gateOpen
    /\ PassesHold(g)
    /\ ~QueueIsEmpty(g, MaxTransferableBits(g))

\* Mutant: the highest index wins, express or not.
SelectsHighestIndex(g) ==
  ~GateIsEmpty(g) /\ \A h \in Gate : ~GateIsEmpty(h) => h <= g

\* The gate that schedulePacket() requests a packet from: the highest index
\* among the nonempty express gates, or else among all nonempty gates.
Selects(g) ==
  LET ready == {h \in Gate : ~GateIsEmpty(h)}
      preferred == IF ready \cap Express # {} THEN ready \cap Express ELSE ready
  IN  g \in preferred /\ \A h \in preferred : h <= g

NothingToSelect == \A g \in Gate : GateIsEmpty(g)

-----------------------------------------------------------------------------
(* LengthAwareQueue *)

\* Mutant: a dropped packet is charged to the buffer.
EnqueueChargesDrops(g, bits) ==
  /\ availableBufferCapacity' =
       [availableBufferCapacity EXCEPT ![g] = @ - bits]
  /\ queue' = IF availableBufferCapacity[g] >= bits
                THEN [queue EXCEPT ![g] = Append(@, bits)]
                ELSE queue
  /\ tsaPacketEnqueued' = tsaPacketEnqueued \cup {g}
  /\ UNCHANGED <<queueRequest, tsaRequest, tsaGateStateChanged, gateRequest,
                 gatePacketEnqueued, gateStateChanged, selectionVars, inTransit>>

\* A packet arrives from QueuingFrames; a full queue drops it, and the TSA is
\* notified all the same.
Enqueue(g, bits) ==
  /\ IF availableBufferCapacity[g] >= bits
       THEN /\ queue' = [queue EXCEPT ![g] = Append(@, bits)]
            /\ availableBufferCapacity' =
                 [availableBufferCapacity EXCEPT ![g] = @ - bits]
       ELSE UNCHANGED <<queue, availableBufferCapacity>>
  /\ tsaPacketEnqueued' = tsaPacketEnqueued \cup {g}
  /\ UNCHANGED <<queueRequest, tsaRequest, tsaGateStateChanged, gateRequest,
                 gatePacketEnqueued, gateStateChanged, selectionVars, inTransit>>

\* Mutant: a packet that leaves does not give its room back.
DequeueKeepsCapacity(g) ==
  /\ queue' = [queue EXCEPT ![g] = Tail(@)]
  /\ UNCHANGED availableBufferCapacity

Dequeue(g) ==
  /\ queue' = [queue EXCEPT ![g] = Tail(@)]
  /\ availableBufferCapacity' =
       [availableBufferCapacity EXCEPT ![g] = @ + Head(queue[g])]

QueueHandleRequestPacket(g) ==
  /\ queueRequest[g] # NotScheduled
  /\ ~QueueIsEmpty(g, queueRequest[g])
  /\ queueRequest' = [queueRequest EXCEPT ![g] = NotScheduled]
  /\ Dequeue(g)
  /\ inTransit' = inTransit \cup
       {[to |-> "TSAlgorithm", gate |-> g, bits |-> Head(queue[g])]}
  /\ UNCHANGED <<tsaAndGateVars, selectionVars>>

-----------------------------------------------------------------------------
(* TSAlgorithm (StrictPriority adds nothing to it) *)

TSAHandleRequestPacket(g) ==
  /\ tsaRequest[g] # NotScheduled
  /\ tsaRequest' = [tsaRequest EXCEPT ![g] = NotScheduled]
  /\ queueRequest' = [queueRequest EXCEPT ![g] = tsaRequest[g]]
  /\ UNCHANGED <<queue, availableBufferCapacity, tsaPacketEnqueued,
                 tsaGateStateChanged, gateRequest, gatePacketEnqueued,
                 gateStateChanged, selectionVars, inTransit>>

TSAHandlePacketEnqueued(g) ==
  /\ g \in tsaPacketEnqueued
  /\ tsaPacketEnqueued' = tsaPacketEnqueued \ {g}
  /\ gatePacketEnqueued' = gatePacketEnqueued \cup {g}
  /\ UNCHANGED <<queueVars, tsaRequest, tsaGateStateChanged, gateRequest,
                 gateStateChanged, selectionVars, inTransit>>

TSAHandleGateStateChanged(g) ==
  /\ g \in tsaGateStateChanged
  /\ tsaGateStateChanged' = tsaGateStateChanged \ {g}
  /\ UNCHANGED <<queueVars, tsaRequest, tsaPacketEnqueued, gateRequest,
                 gatePacketEnqueued, gateStateChanged, selectionVars, inTransit>>

-----------------------------------------------------------------------------
(* TransmissionGate *)

\* The TSA's own ASSERT(!isEmpty(maxBits)) is part of ~GateIsEmpty.
GateHandleRequestPacket(g) ==
  /\ g \in gateRequest
  /\ ~GateIsEmpty(g)
  /\ gateRequest' = gateRequest \ {g}
  /\ tsaRequest' = [tsaRequest EXCEPT ![g] = MaxTransferableBits(g)]
  /\ UNCHANGED <<queueVars, tsaPacketEnqueued, tsaGateStateChanged,
                 gatePacketEnqueued, gateStateChanged, selectionVars, inTransit>>

GateHandlePacketEnqueued(g) ==
  /\ g \in gatePacketEnqueued
  /\ gatePacketEnqueued' = gatePacketEnqueued \ {g}
  /\ selectionPacketEnqueued' =
       (selectionPacketEnqueued \/ (g \in gateOpen /\ PassesHold(g)))
  /\ UNCHANGED <<queueVars, tsaRequest, tsaPacketEnqueued, tsaGateStateChanged,
                 gateRequest, gateStateChanged, selectionRequest,
                 packetRequestedFromUs, packetRequestedFromInputs, inTransit>>

\* Mutant: an opening gate does not tell the transmission selection.
GateHandleGateStateChangedSilently(g) ==
  /\ g \in gateStateChanged
  /\ gateStateChanged' = gateStateChanged \ {g}
  /\ tsaGateStateChanged' = tsaGateStateChanged \cup {g}
  /\ UNCHANGED <<queueVars, tsaRequest, tsaPacketEnqueued, gateRequest,
                 gatePacketEnqueued, selectionVars, inTransit>>

GateHandleGateStateChanged(g) ==
  /\ g \in gateStateChanged
  /\ gateStateChanged' = gateStateChanged \ {g}
  /\ selectionPacketEnqueued' = (selectionPacketEnqueued \/ ~GateIsEmpty(g))
  /\ tsaGateStateChanged' = tsaGateStateChanged \cup {g}
  /\ UNCHANGED <<queueVars, tsaRequest, tsaPacketEnqueued, gateRequest,
                 gatePacketEnqueued, selectionRequest, packetRequestedFromUs,
                 packetRequestedFromInputs, inTransit>>

\* setGateState of every gate during a tick: a gate that changes is to handle
\* the change at this instant.
SetGateStates ==
  /\ gateStateChanged' = gateStateChanged \cup
       ((gateOpen \ gateOpen') \cup (gateOpen' \ gateOpen))
  /\ UNCHANGED <<queueVars, tsaRequest, tsaPacketEnqueued, tsaGateStateChanged,
                 gateRequest, gatePacketEnqueued, selectionVars, inTransit>>

-----------------------------------------------------------------------------
(* Packets pass a TSA and a gate as they come. *)

Forward(packet, from, to) ==
  /\ packet \in inTransit
  /\ packet.to = from
  /\ inTransit' = (inTransit \ {packet}) \cup {[packet EXCEPT !.to = to]}

TSAHandlePacket(packet) ==
  /\ Forward(packet, "TSAlgorithm", "TransmissionGate")
  /\ UNCHANGED <<queueVars, tsaAndGateVars, selectionVars>>

GateHandlePacket(packet) ==
  /\ Forward(packet, "TransmissionGate", "TransmissionSelection")
  /\ UNCHANGED <<queueVars, tsaAndGateVars, selectionVars>>

-----------------------------------------------------------------------------
(* TransmissionSelection *)

\* Mutant: the request stays pending after it was served.
SelectionHandlePacketKeepsRequest(packet) ==
  /\ packetRequestedFromUs
  /\ Forward(packet, "TransmissionSelection", "MAC")
  /\ UNCHANGED <<queueVars, tsaAndGateVars, selectionVars>>

\* A packet that was requested leaves to the MAC, by eOut or pOut.
SelectionHandlePacket(packet) ==
  /\ packetRequestedFromUs
  /\ Forward(packet, "TransmissionSelection", "MAC")
  /\ packetRequestedFromUs' = FALSE
  /\ UNCHANGED <<queueVars, tsaAndGateVars, selectionRequest,
                 selectionPacketEnqueued, packetRequestedFromInputs>>

\* schedulePacket(): ask the selected gate, if there is one.
SchedulePacket ==
  \/ /\ NothingToSelect
     /\ packetRequestedFromInputs' = TRUE
     /\ gateRequest' = gateRequest
  \/ \E g \in Gate :
       /\ Selects(g)
       /\ packetRequestedFromInputs' = FALSE
       /\ gateRequest' = gateRequest \cup {g}

SelectionHandleRequestPacket ==
  /\ selectionRequest
  /\ ~packetRequestedFromUs /\ ~packetRequestedFromInputs
  /\ selectionRequest' = FALSE
  /\ packetRequestedFromUs' = TRUE
  /\ SchedulePacket
  /\ UNCHANGED <<queueVars, tsaRequest, tsaPacketEnqueued, tsaGateStateChanged,
                 gatePacketEnqueued, gateStateChanged, selectionPacketEnqueued,
                 inTransit>>

\* A packet has become ready: serve a request that still waits for one.  If
\* nothing was requested the listeners are notified, see EgressPort.
SelectionHandlePacketEnqueued ==
  /\ selectionPacketEnqueued
  /\ selectionPacketEnqueued' = FALSE
  /\ IF packetRequestedFromInputs
       THEN SchedulePacket
       ELSE UNCHANGED <<packetRequestedFromInputs, gateRequest>>
  /\ UNCHANGED <<queueVars, tsaRequest, tsaPacketEnqueued, tsaGateStateChanged,
                 gatePacketEnqueued, gateStateChanged, selectionRequest,
                 packetRequestedFromUs, inTransit>>

\* requestPacket(), called by the MAC.
RequestPacket ==
  /\ selectionRequest' = TRUE
  /\ UNCHANGED <<queueVars, tsaAndGateVars, selectionPacketEnqueued,
                 packetRequestedFromUs, packetRequestedFromInputs, inTransit>>

-----------------------------------------------------------------------------
(* What is due at this instant *)

\* A request or a packet is between the gates and the MAC.
ChainInProgress ==
  \/ gateRequest # {}
  \/ \E g \in Gate : tsaRequest[g] # NotScheduled \/ queueRequest[g] # NotScheduled
  \/ inTransit # {}

NotificationDue ==
  \/ tsaPacketEnqueued # {} \/ tsaGateStateChanged # {}
  \/ gatePacketEnqueued # {} \/ gateStateChanged # {}

\* Nothing of scheduling priority 0 is due in the queuing network.
QueuingQuiet == ~ChainInProgress /\ ~NotificationDue
=============================================================================
