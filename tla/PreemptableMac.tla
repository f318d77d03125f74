--------------------------- MODULE PreemptableMac ---------------------------
(***************************************************************************)
(* EtherMACFullDuplexPreemptable with enablePreemptingFrames: a MAC that   *)
(* interrupts a preemptable frame for an express frame, sends the rest     *)
(* later, and keeps preemptable traffic back while it is on hold.  Behind  *)
(* it one express and one preemptable queue, the flags of the transmission *)
(* selection, a gate controller that alternates two windows, and the       *)
(* receiving MAC at the other end of the link.                             *)
(*                                                                         *)
(* The MAC's fields form one record, and a method is an operator from      *)
(* record to record, so that handlers are compositions of methods as in    *)
(* the code.  A request of the transmission selection and its packet take  *)
(* one step: EgressPort shows that the chain of events amounts to one.     *)
(*                                                                         *)
(* The unit of time is a bit's time on the wire.  Events of one instant    *)
(* and priority are taken in any order, but for two rules of the FIFO      *)
(* event list: a tick was scheduled before an interframe gap that ends     *)
(* with it, and packets come by a cascade of events of the present         *)
(* instant, behind everything that was scheduled earlier.                  *)
(***************************************************************************)
EXTENDS Integers, Sequences, FiniteSetsExt

CONSTANTS
  ByteTime,           \* 8 bits
  MinNonFinal,        \* kFramePreemptionMinNonFinalPayloadSize
  MinFinal,           \* kFramePreemptionMinFinalPayloadSize
  Checksum,           \* 4 bytes
  Preamble,           \* 8 bytes, the SFD among them
  InterframeGap,      \* INTERFRAME_GAP_BITS
  ExpressBytes,       \* lengths of express frames, without preamble
  PreemptableBytes,   \* lengths of preemptable frames
  HoldAndRelease,     \* settings of enableHoldAndRelease
  PreemptableWindow,  \* how long the express gate is closed,
  ExpressWindow,      \* and open; it is always open without hold and release
  MaxExpress,         \* bounds on the frames of a run
  MaxPreemptable

ASSUME SizesAssumption ==
  /\ {ByteTime, MinNonFinal, MinFinal} \subseteq Nat \ {0}
  /\ {Preamble, InterframeGap, MaxExpress, MaxPreemptable} \subseteq Nat
  /\ Checksum \in 1 .. Preamble
  /\ ExpressBytes \cup PreemptableBytes \subseteq Nat \ {0}
ASSUME WindowsAssumption ==
  /\ HoldAndRelease \subseteq BOOLEAN
  /\ {PreemptableWindow, ExpressWindow} \subseteq Nat \ 0 .. InterframeGap
  \* otherwise GateController would schedule holds in the past
  /\ TRUE \in HoldAndRelease =>
       PreemptableWindow >= InterframeGap + MinNonFinal + MinFinal + Checksum

VARIABLES
  expressQueue, preemptableQueue,
  mac,                      \* the MAC's fields and self-messages
  selectionPacketEnqueued,  \* the transmission selection's packetEnqueuedMsg
  packetRequested,          \* packetRequestedFromUs and packetRequestedFromInputs
  enableHoldAndRelease,     \* set by initialize
  expressWindow,            \* the express gate's entry is in force
  untilTick,                \* time until the gate controller's next tick
  holdRequest,              \* time until the holdRequest message
  receivedPreemptedFrame,   \* at the receiving MAC
  deliveredPreemptable,     \* what it has sent up
  deliveredExpress,
  expressCount,             \* packets that have arrived
  preemptableCount,
  expressWait               \* history: how long the next express frame has waited

queueVars == <<expressQueue, preemptableQueue>>
countVars == <<expressCount, preemptableCount>>
selectionVars == <<selectionPacketEnqueued, packetRequested>>
gateVars == <<expressWindow, untilTick, holdRequest, enableHoldAndRelease>>
receiverVars == <<receivedPreemptedFrame, deliveredPreemptable, deliveredExpress>>
vars == <<queueVars, countVars, mac, selectionVars, gateVars, receiverVars,
          expressWait>>

NotScheduled == -1
NoFrame == [express |-> FALSE, number |-> 0, bytes |-> 0]
Frame == [express : BOOLEAN, number : Nat, bytes : Nat]
Timer == Nat \cup {NotScheduled}
Mac == [transmitState : {"TX_IDLE", "TRANSMITTING", "WAIT_IFG"},
        transmitting : {"nothing", "express", "preemptable"},
        curTxFrame : Frame, currentExpressFrame : Frame,
        currentPreemptableFrame : Frame,
        elapsed : Nat, preemptedBytesSent : Nat,
        endTx : Timer, endIFG : Timer, recheck : Timer, preempt : Timer,
        onHold : BOOLEAN, requestPacket : BOOLEAN,
        dangling : BOOLEAN, failed : BOOLEAN]

TypeOK ==
  /\ expressQueue \in Seq(Frame) /\ preemptableQueue \in Seq(Frame)
  /\ mac \in Mac
  /\ {selectionPacketEnqueued, packetRequested, expressWindow,
      enableHoldAndRelease} \subseteq BOOLEAN
  /\ untilTick \in Nat /\ holdRequest \in Timer
  /\ receivedPreemptedFrame \in Frame
  /\ deliveredPreemptable \in Seq(Frame) /\ deliveredExpress \in Seq(Frame)
  /\ expressCount \in 0 .. MaxExpress /\ preemptableCount \in 0 .. MaxPreemptable
  /\ expressWait \in Nat

\* getHoldAdvance adds bits and bytes and takes the sum for bits.
HoldAdvance == InterframeGap + MinNonFinal + MinFinal + Checksum

\* The MAC has asked for its first frame.  With hold and release, the first
\* tick has begun an entry without express gates.
Init ==
  /\ expressQueue = <<>> /\ preemptableQueue = <<>>
  /\ mac = [transmitState |-> "TX_IDLE", transmitting |-> "nothing",
            curTxFrame |-> NoFrame, currentExpressFrame |-> NoFrame,
            currentPreemptableFrame |-> NoFrame,
            elapsed |-> 0, preemptedBytesSent |-> 0,
            endTx |-> NotScheduled, endIFG |-> NotScheduled,
            recheck |-> NotScheduled, preempt |-> NotScheduled,
            onHold |-> FALSE, requestPacket |-> TRUE,
            dangling |-> FALSE, failed |-> FALSE]
  /\ selectionPacketEnqueued = FALSE /\ packetRequested = FALSE
  /\ enableHoldAndRelease \in HoldAndRelease
  /\ expressWindow = ~enableHoldAndRelease
  /\ untilTick = PreemptableWindow
  /\ holdRequest = IF enableHoldAndRelease THEN PreemptableWindow - HoldAdvance
                                         ELSE NotScheduled
  /\ receivedPreemptedFrame = NoFrame
  /\ deliveredPreemptable = <<>> /\ deliveredExpress = <<>>
  /\ expressCount = 0 /\ preemptableCount = 0
  /\ expressWait = 0

WireTime(bytes) == (bytes + Preamble) * ByteTime

-----------------------------------------------------------------------------
(* The gates *)

\* hasExpressPacketEnqueued: the head of the queue fits into the window.
ExpressReady ==
  /\ expressQueue # <<>>
  /\ enableHoldAndRelease => /\ expressWindow
                             /\ WireTime(Head(expressQueue).bytes) <= untilTick

\* The preemptable gate is always open, but for the MAC's hold.
PreemptableReady(onHold) == preemptableQueue # <<>> /\ ~onHold

-----------------------------------------------------------------------------
(* Where a preemptable frame may be cut *)

\* calculatePreemptedPayloadBytesSent without the checksum: whole bytes only.
PayloadBytesSent(m) == m.elapsed \div ByteTime

PayloadBytesRemaining(m) ==
  m.currentPreemptableFrame.bytes - PayloadBytesSent(m) - m.preemptedBytesSent

\* Mutant: the final fragment may have any length.
PreemptionNowPossibleIgnoringRest(m) ==
  m.transmitting = "preemptable" => PayloadBytesSent(m) >= MinNonFinal

IsPreemptionNowPossible(m) ==
  m.transmitting = "preemptable" =>
    PayloadBytesRemaining(m) >= MinFinal /\ PayloadBytesSent(m) >= MinNonFinal

\* Mutant: a fragment that is still too short is never waited for.
NeverPreemptionLater(m) == FALSE

\* isPreemptionLaterPossible, when it is not possible now.
IsPreemptionLaterPossible(m) ==
  /\ PayloadBytesSent(m) < MinNonFinal
  /\ PayloadBytesRemaining(m)
       >= MinNonFinal + Checksum - PayloadBytesSent(m) + MinFinal

\* Mutant: a byte too early.
TimeToPreemptionTooSoon(m) ==
  (MinNonFinal - 1 - PayloadBytesSent(m)) * ByteTime

\* When it will be, from now.
TimeToPreemption(m) == (MinNonFinal - PayloadBytesSent(m)) * ByteTime

-----------------------------------------------------------------------------
(* The MAC's methods; "failed" is an ASSERT or a throw. *)

FailUnless(condition, m) == [m EXCEPT !.failed = @ \/ ~condition]

\* A frame that is not the interrupted one is new; the rest of an interrupted
\* one follows where its last part ended.
StartFrameTransmission(m) ==
  LET f == m.curTxFrame
      sent == IF m.currentPreemptableFrame = f THEN m.preemptedBytesSent ELSE 0
      started == [m EXCEPT !.transmitState = "TRANSMITTING", !.elapsed = 0]
  IN  FailUnless(f # NoFrame /\ m.transmitting = "nothing",
        IF f.express
          THEN [started EXCEPT !.transmitting = "express",
                               !.endTx = WireTime(f.bytes)]
          ELSE [started EXCEPT !.transmitting = "preemptable",
                               !.currentPreemptableFrame = f,
                               !.preemptedBytesSent = sent,
                               !.endTx = WireTime(f.bytes - sent)])

\* INET's: send what there is, or become idle.
BeginSendFrames(m) ==
  IF m.curTxFrame # NoFrame THEN StartFrameTransmission(m)
  ELSE [m EXCEPT !.transmitState = "TX_IDLE"]

\* checkForAndRequestExpressFrame asks for an express frame if there is one.
RequestsExpressFrame(m) == m.transmitting # "express" /\ ExpressReady

\* Mutant: the rest of the interrupted frame ignores a hold.
GetNextFrameFromQueueOnHold(m, pending) ==
  IF m.currentExpressFrame # NoFrame
    THEN [m EXCEPT !.curTxFrame = m.currentExpressFrame,
                   !.currentExpressFrame = NoFrame]
  ELSE IF RequestsExpressFrame(m)
    THEN [m EXCEPT !.requestPacket = TRUE]
  ELSE IF m.currentPreemptableFrame # NoFrame
    THEN [m EXCEPT !.curTxFrame = m.currentPreemptableFrame]
  ELSE [m EXCEPT !.requestPacket = @ \/ ~pending]

\* Mutant: the queues are asked before an interrupted frame is continued.
GetNextFrameFromQueueFirst(m, pending) ==
  IF m.currentExpressFrame # NoFrame
    THEN [m EXCEPT !.curTxFrame = m.currentExpressFrame,
                   !.currentExpressFrame = NoFrame]
  ELSE IF m.onHold \/ m.currentPreemptableFrame = NoFrame \/ preemptableQueue # <<>>
    THEN [m EXCEPT !.requestPacket = @ \/ ~pending]
  ELSE [m EXCEPT !.curTxFrame = m.currentPreemptableFrame]

\* A saved express frame, a waiting one, the rest of the interrupted frame, or
\* whatever the queues have: INET's requestNextFrameFromExtQueue asks for that
\* unless a request is pending.
GetNextFrameFromQueue(m, pending) ==
  FailUnless(m.curTxFrame = NoFrame,
    IF m.currentExpressFrame # NoFrame
      THEN [m EXCEPT !.curTxFrame = m.currentExpressFrame,
                     !.currentExpressFrame = NoFrame]
    ELSE IF RequestsExpressFrame(m)
      THEN [m EXCEPT !.requestPacket = TRUE]
    ELSE IF ~m.onHold /\ m.currentPreemptableFrame # NoFrame
      THEN [m EXCEPT !.curTxFrame = m.currentPreemptableFrame]
    ELSE [m EXCEPT !.requestPacket = @ \/ ~pending])

\* The part ends with a checksum.
PreemptCurrentFrame(m) ==
  FailUnless(m.transmitting = "preemptable" /\ IsPreemptionNowPossible(m),
    [m EXCEPT !.endTx = Checksum * ByteTime])

\* The recheck that an express frame makes superfluous: cancelAndDelete leaves
\* the pointer to the deleted message.  The run goes on here as if the memory
\* still read as a message that is not scheduled.
WithoutRecheck(m) ==
  [m EXCEPT !.recheck = NotScheduled,
            !.dangling = @ \/ m.recheck # NotScheduled]

\* An express frame cuts off a preemptable one, waits for the end of the gap,
\* or starts at once, as a preemptable frame does.
HandleUpperPacket(m, f) ==
  LET ready == IF f.express THEN WithoutRecheck(m) ELSE m
  IN  FailUnless(/\ m.transmitState = "TX_IDLE"
                      \/ (m.transmitting # "express" /\ f.express)
                 /\ ~f.express /\ m.onHold => m.currentPreemptableFrame # NoFrame,
        CASE m.transmitting = "preemptable" /\ f.express ->
               PreemptCurrentFrame([ready EXCEPT !.currentExpressFrame = f])
          [] m.transmitState = "WAIT_IFG" /\ f.express ->
               [ready EXCEPT !.currentExpressFrame = f]
          [] OTHER ->
               StartFrameTransmission([ready EXCEPT !.curTxFrame = f]))

\* packetEnqueued, the transmission selection's notification.
PacketEnqueued(m) ==
  IF m.transmitting # "preemptable" \/ ~ExpressReady THEN m
  ELSE IF IsPreemptionNowPossible(m) THEN [m EXCEPT !.requestPacket = TRUE]
  ELSE IF IsPreemptionLaterPossible(m)
    THEN [m EXCEPT !.recheck = TimeToPreemption(m)]
  ELSE m

\* hold(SIMTIME_ZERO)
Hold(m, pending) ==
  LET held == [m EXCEPT !.onHold = TRUE]
  IN  IF m.transmitting = "preemptable"
        THEN IF IsPreemptionNowPossible(m) THEN PreemptCurrentFrame(held)
             ELSE IF IsPreemptionLaterPossible(m)
               THEN [held EXCEPT !.preempt = TimeToPreemption(m)]
             ELSE held
      ELSE IF m.transmitState = "TX_IDLE" THEN GetNextFrameFromQueue(held, pending)
      ELSE held

\* release() has removed pending requests.
Release(m) ==
  LET released == [m EXCEPT !.onHold = FALSE]
  IN  IF m.transmitting = "express" \/ m.endIFG # NotScheduled THEN released
      ELSE BeginSendFrames(GetNextFrameFromQueue(released, FALSE))

-----------------------------------------------------------------------------
(* The receiving MAC *)

\* A fragment tells how many bytes of its frame have been sent; the frame is
\* sent up when that is its length.
Receive(f, bytesSent) ==
  LET frame == IF receivedPreemptedFrame = f THEN receivedPreemptedFrame ELSE f
  IN  IF frame.bytes = bytesSent
        THEN /\ deliveredPreemptable' = Append(deliveredPreemptable, frame)
             /\ receivedPreemptedFrame' = NoFrame
        ELSE /\ receivedPreemptedFrame' = frame
             /\ UNCHANGED deliveredPreemptable

-----------------------------------------------------------------------------
(* Self-messages of the MAC *)

\* INET's handleEndTxPeriod: the frame is deleted, the gap begins.
EndTxPeriod(m) ==
  [m EXCEPT !.transmitState = "WAIT_IFG", !.transmitting = "nothing",
            !.curTxFrame = NoFrame, !.elapsed = 0,
            !.endTx = NotScheduled, !.endIFG = InterframeGap]

HandleEndTxPeriodExpress ==
  /\ mac.endTx = 0 /\ mac.transmitting = "express"
  /\ mac' = EndTxPeriod(mac)
  /\ deliveredExpress' = Append(deliveredExpress, mac.curTxFrame)
  /\ UNCHANGED <<queueVars, selectionVars, gateVars, receivedPreemptedFrame,
                 deliveredPreemptable, countVars, expressWait>>

\* Mutant: the checksum that ends the part counts as a part of the frame.
BytesSentWithChecksum(m) == m.preemptedBytesSent + PayloadBytesSent(m)

\* What has been sent of the frame when a part of it ends: without the
\* checksum of the part, which is the frame's own at the end of the last one.
BytesSent(m) ==
  LET sent == m.preemptedBytesSent + Max({PayloadBytesSent(m) - Checksum, 0})
  IN  IF sent + Checksum = m.currentPreemptableFrame.bytes + Preamble
        THEN m.currentPreemptableFrame.bytes
        ELSE sent

HandleEndTxPeriodPreemptable ==
  /\ mac.endTx = 0 /\ mac.transmitting = "preemptable"
  /\ LET f == mac.currentPreemptableFrame
         sent == BytesSent(mac)
     IN  /\ mac' = FailUnless(PayloadBytesSent(mac) - Checksum <= f.bytes + Preamble,
                     [EndTxPeriod(mac) EXCEPT
                        !.preemptedBytesSent = sent,
                        !.currentPreemptableFrame =
                          IF sent = f.bytes THEN NoFrame ELSE f])
         /\ Receive(f, sent)
  /\ UNCHANGED <<queueVars, selectionVars, gateVars, deliveredExpress,
                 countVars, expressWait>>

\* A tick of the same instant comes first.
HandleEndIFGPeriod ==
  /\ mac.endIFG = 0
  /\ enableHoldAndRelease => untilTick # 0
  /\ mac' = BeginSendFrames(GetNextFrameFromQueue(
               [mac EXCEPT !.endIFG = NotScheduled], packetRequested))
  /\ UNCHANGED <<queueVars, selectionVars, gateVars, receiverVars, countVars, expressWait>>

\* checkForAndRequestExpressFrame
Recheck ==
  /\ mac.recheck = 0
  /\ mac' = FailUnless(IsPreemptionNowPossible(mac),
               [mac EXCEPT !.recheck = NotScheduled,
                           !.requestPacket = @ \/ RequestsExpressFrame(mac)])
  /\ UNCHANGED <<queueVars, selectionVars, gateVars, receiverVars, countVars, expressWait>>

PreemptCurrentFrameDue ==
  /\ mac.preempt = 0
  /\ mac' = PreemptCurrentFrame([mac EXCEPT !.preempt = NotScheduled])
  /\ UNCHANGED <<queueVars, selectionVars, gateVars, receiverVars, countVars, expressWait>>

HoldRequest ==
  /\ holdRequest = 0
  /\ holdRequest' = NotScheduled
  /\ mac' = Hold(mac, packetRequested)
  /\ UNCHANGED <<queueVars, selectionVars, enableHoldAndRelease, expressWindow,
                 untilTick, receiverVars, countVars, expressWait>>

-----------------------------------------------------------------------------
(* The gate controller's tick, see GateController *)

\* The express window begins; no gate closes and nothing is released.
TickOpensExpress ==
  /\ enableHoldAndRelease /\ untilTick = 0 /\ ~expressWindow
  /\ expressWindow' = TRUE
  /\ untilTick' = ExpressWindow
  /\ UNCHANGED <<queueVars, mac, packetRequested, enableHoldAndRelease,
                 holdRequest, receiverVars, countVars, expressWait>>
  /\ selectionPacketEnqueued' = (selectionPacketEnqueued \/ ExpressReady')

\* It ends: the MAC is released, its requests are removed, and the next hold
\* is scheduled ahead of the next express window.
TickClosesExpress ==
  /\ enableHoldAndRelease /\ untilTick = 0 /\ expressWindow
  /\ expressWindow' = FALSE
  /\ untilTick' = PreemptableWindow
  /\ packetRequested' = (packetRequested /\ ~mac.onHold)
  /\ mac' = (IF mac.onHold THEN Release(mac) ELSE mac)
  /\ selectionPacketEnqueued' =
       (selectionPacketEnqueued \/ (mac.onHold /\ PreemptableReady(FALSE)))
  /\ holdRequest' = PreemptableWindow - HoldAdvance
  /\ UNCHANGED <<queueVars, enableHoldAndRelease, receiverVars, countVars, expressWait>>

-----------------------------------------------------------------------------
(* The transmission selection, see Queuing *)

TimersQuiet ==
  /\ 0 \notin {mac.endTx, mac.endIFG, mac.recheck, mac.preempt, holdRequest}
  /\ enableHoldAndRelease => untilTick # 0

\* The packet that strict priority prefers goes to the MAC.  An express frame
\* that overwrites the one the MAC has kept begins to wait.
SelectPacket(m) ==
  \/ /\ ExpressReady
     /\ expressQueue' = Tail(expressQueue)
     /\ mac' = HandleUpperPacket(m, Head(expressQueue))
     /\ expressWait' = (IF m.currentExpressFrame = NoFrame THEN expressWait ELSE 0)
     /\ UNCHANGED preemptableQueue
  \/ /\ ~ExpressReady /\ PreemptableReady(m.onHold)
     /\ preemptableQueue' = Tail(preemptableQueue)
     /\ mac' = HandleUpperPacket(m, Head(preemptableQueue))
     /\ UNCHANGED <<expressQueue, expressWait>>

NothingReady == ~ExpressReady /\ ~PreemptableReady(mac.onHold)

\* At most one request may be pending.
HandleRequestPacket ==
  /\ TimersQuiet
  /\ mac.requestPacket
  /\ LET m == FailUnless(~packetRequested, [mac EXCEPT !.requestPacket = FALSE])
     IN  \/ SelectPacket(m) /\ packetRequested' = FALSE
         \/ /\ NothingReady
            /\ mac' = m
            /\ packetRequested' = TRUE
            /\ UNCHANGED <<queueVars, expressWait>>
  /\ UNCHANGED <<selectionPacketEnqueued, gateVars, receiverVars, countVars>>

HandlePacketEnqueued ==
  /\ TimersQuiet
  /\ selectionPacketEnqueued
  /\ selectionPacketEnqueued' = FALSE
  /\ \/ packetRequested /\ SelectPacket(mac) /\ packetRequested' = FALSE
     \/ /\ packetRequested /\ NothingReady
        /\ UNCHANGED <<mac, packetRequested, queueVars, expressWait>>
     \/ /\ ~packetRequested
        /\ mac' = PacketEnqueued(mac)
        /\ UNCHANGED <<packetRequested, queueVars, expressWait>>
  /\ UNCHANGED <<gateVars, receiverVars, countVars>>

-----------------------------------------------------------------------------
(* Packets and time *)

\* A packet comes to its queue and, if its gate is open and no hold is in
\* force, the transmission selection hears of it.
ArriveExpress(bytes) ==
  /\ TimersQuiet
  /\ expressCount < MaxExpress
  /\ expressCount' = expressCount + 1
  /\ expressQueue' = Append(expressQueue,
       [express |-> TRUE, number |-> expressCount', bytes |-> bytes])
  /\ selectionPacketEnqueued' = (selectionPacketEnqueued \/ expressWindow)
  /\ UNCHANGED <<preemptableQueue, preemptableCount, mac, packetRequested,
                 gateVars, receiverVars, expressWait>>

ArrivePreemptable(bytes) ==
  /\ TimersQuiet
  /\ preemptableCount < MaxPreemptable
  /\ preemptableCount' = preemptableCount + 1
  /\ preemptableQueue' = Append(preemptableQueue,
       [express |-> FALSE, number |-> preemptableCount', bytes |-> bytes])
  /\ selectionPacketEnqueued' = (selectionPacketEnqueued \/ ~mac.onHold)
  /\ UNCHANGED <<expressQueue, expressCount, mac, packetRequested, gateVars,
                 receiverVars, expressWait>>

Later(timer) == IF timer = NotScheduled THEN NotScheduled ELSE timer - 1

\* An express frame could be sent, but is not.
ExpressWaits ==
  /\ ExpressReady \/ mac.currentExpressFrame # NoFrame
  /\ mac.transmitting # "express"

InstantOver ==
  TimersQuiet /\ ~mac.requestPacket /\ ~selectionPacketEnqueued

Elapse ==
  /\ InstantOver
  /\ mac' = [mac EXCEPT
       !.elapsed = IF mac.transmitting = "preemptable" THEN @ + 1 ELSE 0,
       !.endTx = Later(@), !.endIFG = Later(@),
       !.recheck = Later(@), !.preempt = Later(@)]
  /\ holdRequest' = Later(holdRequest)
  /\ untilTick' = (IF enableHoldAndRelease THEN untilTick - 1 ELSE untilTick)
  /\ expressWait' = (IF ExpressWaits THEN expressWait + 1 ELSE 0)
  /\ UNCHANGED <<queueVars, countVars, selectionVars, enableHoldAndRelease,
                 expressWindow, receiverVars>>

\* A failed assertion ends the run.
EventLoop ==
  /\ ~mac.failed
  /\ \/ HandleEndTxPeriodExpress
     \/ HandleEndTxPeriodPreemptable
     \/ HandleEndIFGPeriod
     \/ Recheck
     \/ PreemptCurrentFrameDue
     \/ HoldRequest
     \/ TickOpensExpress
     \/ TickClosesExpress
     \/ HandleRequestPacket
     \/ HandlePacketEnqueued
     \/ Elapse

Next ==
  \/ EventLoop
  \/ ~mac.failed /\ \E bytes \in ExpressBytes : ArriveExpress(bytes)
  \/ ~mac.failed /\ \E bytes \in PreemptableBytes : ArrivePreemptable(bytes)

\* The event loop goes on; nothing makes packets arrive.
Spec == Init /\ [][Next]_vars /\ WF_vars(EventLoop)

-----------------------------------------------------------------------------
(* Properties *)

\* The assertions on the way of a frame: a frame is there to start and none is
\* under way (EtherMACFullDuplexPreemptable.cc:259, 273), the MAC is ready for
\* the frame it gets (210), nothing is left over when it looks for the next one
\* (336, 458), a frame is cut only where it may be (489-492), and one packet at
\* a time is requested (TransmissionSelection.cc:121).
AssertionsHold == ~mac.failed

\* However preemption, hold and a late recheck meet in one frame, a part that
\* is followed by another is long enough, and so is what is left of the frame.
FragmentsAreLegal ==
  [][HandleEndTxPeriodPreemptable /\ mac'.currentPreemptableFrame # NoFrame =>
       /\ mac'.preemptedBytesSent - mac.preemptedBytesSent >= MinNonFinal
       /\ mac.currentPreemptableFrame.bytes - mac'.preemptedBytesSent >= MinFinal
    ]_vars

\* The receiver puts every preemptable frame together again, once, in the order
\* of arrival: one that is not in the queue has been delivered or is the one
\* that the MAC keeps until its last part is sent.
PreemptableIsComplete ==
  LET kept == mac.currentPreemptableFrame
  IN  /\ \A i \in 1 .. Len(deliveredPreemptable) :
            deliveredPreemptable[i].number = i
      /\ kept # NoFrame => kept.number = Len(deliveredPreemptable) + 1
      /\ preemptableCount = Len(deliveredPreemptable) + Len(preemptableQueue)
                               + (IF kept = NoFrame THEN 0 ELSE 1)

\* The pointer to the recheck message is null or the message exists: that is
\* what the test in handleUpperPacket relies on (EtherMACFullDuplexPreemptable.cc:203).
RecheckPointerIsValid == ~mac.dangling

\* What the class comment says, that frames are just queued up and sent out one
\* by one, for express frames: those the MAC got are delivered, on the wire or
\* kept for later.
ExpressIsComplete ==
  expressCount = Len(deliveredExpress) + Len(expressQueue)
                   + (IF mac.transmitting = "express" THEN 1 ELSE 0)
                   + (IF mac.currentExpressFrame # NoFrame THEN 1 ELSE 0)

\* The use of preemption: the express frame that is to be sent next, kept by the
\* MAC or at the head of the queue, waits at most for a preemptable part
\* that is just too short to be cut, and for the gap behind it.
ExpressWaitIsBounded ==
  expressWait <= (MinNonFinal + MinFinal + Checksum + Preamble - 1) * ByteTime
                   + InterframeGap

\* While the MAC is on hold no preemptable frame is started or continued.
HoldKeepsBack ==
  [][mac.onHold /\ mac'.onHold /\ mac.transmitting = "nothing"
       => mac'.transmitting # "preemptable"]_vars

\* What getHoldAdvance's comment promises (EtherMACFullDuplexPreemptable.cc:680):
\* after the hold advance express traffic can flow.
ExpressCanFlow ==
  [][TickOpensExpress => mac.transmitting # "preemptable"]_vars

\* Every packet is delivered in the end.
EventuallyDelivered ==
  <>[](preemptableCount = Len(deliveredPreemptable) /\ expressQueue = <<>>)
=============================================================================
