----------------------------- MODULE MacProofs -----------------------------
(***************************************************************************)
(* What PreemptableMac's runs check for small frames, proved for frames,   *)
(* fragments and windows of any length.                                    *)
(*                                                                         *)
(* MacInv says what the MAC is doing (StageInv), when a part of a          *)
(* preemptable frame ends and that every timer that will cut it comes      *)
(* before that (SendsPart), what the gate controller has announced         *)
(* (GatesInv, HoldInv), and where each frame is (FramesInv, KeptInv,       *)
(* NumbersInv).  WaitInv says why the express frame that is next goes soon *)
(* enough.                                                                 *)
(***************************************************************************)
EXTENDS PreemptableMac, TLAPS

(***************************************************************************)
(* The stages of the MAC                                                   *)
(***************************************************************************)
Idle(m) ==
  /\ m.transmitState = "TX_IDLE" /\ m.transmitting = "nothing"
  /\ m.curTxFrame = NoFrame /\ m.currentExpressFrame = NoFrame
  /\ m.endTx = NotScheduled /\ m.endIFG = NotScheduled
  /\ m.recheck = NotScheduled /\ m.preempt = NotScheduled

InGap(m) ==
  /\ m.transmitState = "WAIT_IFG" /\ m.transmitting = "nothing"
  /\ m.curTxFrame = NoFrame
  /\ m.endTx = NotScheduled /\ m.endIFG \in Nat
  /\ m.recheck = NotScheduled /\ m.preempt = NotScheduled

SendsExpress(m) ==
  /\ m.transmitState = "TRANSMITTING" /\ m.transmitting = "express"
  /\ m.curTxFrame # NoFrame /\ m.currentExpressFrame = NoFrame
  /\ m.endTx \in Nat /\ m.endIFG = NotScheduled
  /\ m.recheck = NotScheduled /\ m.preempt = NotScheduled

\* What is left of the frame when its present part begins, and the elapsed
\* time at which the part ends, as planned now.
Rest(m) == m.currentPreemptableFrame.bytes - m.preemptedBytesSent
PartEnd(m) == m.elapsed + m.endTx

Uncut(m) == PartEnd(m) = WireTime(Rest(m))

\* The part was cut when so many bytes of it had been sent.
CutAfter(m, sent) ==
  /\ sent >= MinNonFinal
  /\ Rest(m) - sent >= MinFinal
  /\ sent * ByteTime <= PartEnd(m) - Checksum * ByteTime
  /\ PartEnd(m) - Checksum * ByteTime < (sent + 1) * ByteTime
  /\ m.endTx <= Checksum * ByteTime

\* The timer, if it runs, ends when the part is just long enough to be cut.
AwaitsCut(m, timer) ==
  timer # NotScheduled =>
    /\ MinNonFinal * ByteTime <= m.elapsed + timer
    /\ m.elapsed + timer < (MinNonFinal + 1) * ByteTime
    /\ Rest(m) >= MinNonFinal + Checksum + MinFinal

SendsPart(m) ==
  /\ m.transmitState = "TRANSMITTING" /\ m.transmitting = "preemptable"
  /\ m.currentPreemptableFrame # NoFrame
  /\ m.curTxFrame = m.currentPreemptableFrame
  /\ m.endTx \in Nat /\ m.endIFG = NotScheduled
  /\ PartEnd(m) <= WireTime(Rest(m))
  /\ Uncut(m) \/ \E sent \in 0 .. m.currentPreemptableFrame.bytes : CutAfter(m, sent)
  /\ AwaitsCut(m, m.recheck) /\ AwaitsCut(m, m.preempt)

\* An idle MAC has exactly one request, with itself or with the transmission
\* selection; a MAC that sends a part requests only what may cut it now.
StageInv ==
  \/ Idle(mac) /\ (mac.requestPacket <=> ~packetRequested)
  \/ InGap(mac) /\ ~mac.requestPacket /\ ~packetRequested
  \/ SendsExpress(mac) /\ ~mac.requestPacket /\ ~packetRequested
  \/ /\ SendsPart(mac) /\ ~packetRequested
     /\ mac.requestPacket =>
          ExpressReady /\ IsPreemptionNowPossible(mac) /\ mac.endTx # 0

(***************************************************************************)
(* Gates and holds                                                         *)
(***************************************************************************)
GatesInv ==
  /\ enableHoldAndRelease \in HoldAndRelease
  /\ ~enableHoldAndRelease =>
       expressWindow /\ ~mac.onHold /\ holdRequest = NotScheduled
  /\ enableHoldAndRelease /\ expressWindow =>
       mac.onHold /\ holdRequest = NotScheduled
  /\ enableHoldAndRelease /\ ~expressWindow =>
       \/ mac.onHold /\ holdRequest = NotScheduled
       \/ /\ ~mac.onHold /\ holdRequest # NotScheduled
          /\ untilTick = holdRequest + HoldAdvance
  /\ enableHoldAndRelease /\ untilTick = 0 => ~mac.requestPacket

UntilRelease == IF expressWindow THEN untilTick ELSE untilTick + ExpressWindow

\* A part that is still under way on hold ends before the release.
HoldInv ==
  mac.onHold /\ mac.transmitting = "preemptable"
    => WireTime(Rest(mac)) - mac.elapsed < UntilRelease

(***************************************************************************)
(* Frames                                                                  *)
(***************************************************************************)
ExpressFrames == [express : {TRUE}, number : Nat, bytes : ExpressBytes]
PreemptableFrames == [express : {FALSE}, number : Nat, bytes : PreemptableBytes]

FramesInv ==
  /\ expressQueue \in Seq(ExpressFrames)
  /\ preemptableQueue \in Seq(PreemptableFrames)
  /\ mac.currentExpressFrame \in ExpressFrames \cup {NoFrame}
  /\ mac.currentPreemptableFrame \in PreemptableFrames \cup {NoFrame}
  /\ mac.transmitting = "express" => mac.curTxFrame \in ExpressFrames
  /\ mac.currentPreemptableFrame # NoFrame => Rest(mac) >= 1

\* An idle MAC keeps the rest of a frame only on hold, or for an express frame
\* that it has just asked for.
KeptInv ==
  mac.transmitState = "TX_IDLE" /\ mac.currentPreemptableFrame # NoFrame
    => mac.onHold \/ (mac.requestPacket /\ ExpressReady)

NumbersInv ==
  /\ PreemptableIsComplete
  /\ \A i \in 1 .. Len(preemptableQueue) :
       preemptableQueue[i].number = preemptableCount - Len(preemptableQueue) + i

\* A request that waits is told of the express frame that becomes ready.
NotifiedInv ==
  packetRequested /\ ~selectionPacketEnqueued => ~ExpressReady

MacInv ==
  /\ TypeOK /\ StageInv
  /\ GatesInv /\ HoldInv
  /\ FramesInv /\ KeptInv /\ NumbersInv
  /\ NotifiedInv
  /\ ~mac.failed

\* The gate schedule keeps the MAC on hold for longer than any preemptable
\* frame takes: otherwise release meets one that is under way.
HoldOutlastsFrames ==
  TRUE \in HoldAndRelease =>
    \A bytes \in PreemptableBytes : WireTime(bytes) < HoldAdvance + ExpressWindow

(***************************************************************************)
(* The wait of an express frame                                            *)
(***************************************************************************)
WaitBound ==
  (MinNonFinal + MinFinal + Checksum + Preamble - 1) * ByteTime + InterframeGap

\* Nothing will make the part end later than is planned now: cutting a whole
\* part shortens it, what is left is too short to be cut, or an express frame
\* has cut it already.
EndIsSettled(m) ==
  \/ m.currentExpressFrame # NoFrame
  \/ Uncut(m) /\ m.preempt = NotScheduled
  \/ PayloadBytesRemaining(m) < MinFinal

\* A frame that waits for a part has just come, is being requested, will be
\* when the recheck is due, or goes when the part ends.
PartWaitInv ==
  ExpressWaits /\ mac.transmitting = "preemptable" =>
    /\ expressWait <= mac.elapsed
    /\ \/ mac.currentExpressFrame = NoFrame /\ expressWait = 0 /\ selectionPacketEnqueued
       \/ mac.requestPacket /\ expressWait + Checksum * ByteTime + InterframeGap <= WaitBound
       \/ mac.recheck # NotScheduled
       \/ expressWait + mac.endTx + InterframeGap <= WaitBound /\ EndIsSettled(mac)
    /\ mac.currentExpressFrame # NoFrame
         => expressWait + mac.endTx + InterframeGap <= WaitBound

GapWaitInv ==
  mac.transmitState = "WAIT_IFG" =>
    /\ mac.endIFG <= InterframeGap
    /\ ExpressWaits => expressWait + mac.endIFG <= WaitBound

\* What is left of the history when no frame waits any more: the frame is being
\* sent, or its window closes and the queue does not move before the next.
PastWaitInv ==
  expressWait # 0 /\ ~ExpressWaits =>
    IF mac.transmitting = "express"
      THEN mac.endTx = WireTime(mac.curTxFrame.bytes)
      ELSE /\ enableHoldAndRelease
           /\ \/ ~expressWindow /\ untilTick = PreemptableWindow
              \/ expressWindow /\ expressQueue # <<>>

\* Only in an express window a frame is kept behind a part.
KeptExpressInv ==
  enableHoldAndRelease /\ mac.transmitting = "preemptable"
                       /\ mac.currentExpressFrame # NoFrame
    => expressWindow

WaitInv ==
  /\ ExpressWaitIsBounded
  /\ PartWaitInv /\ GapWaitInv /\ PastWaitInv /\ KeptExpressInv

(***************************************************************************)
(* Constants and bytes                                                     *)
(***************************************************************************)

\* The assumptions, one by one.
LEMMA Sizes ==
  /\ ByteTime \in Nat /\ ByteTime >= 1
  /\ MinNonFinal \in Nat /\ MinNonFinal >= 1
  /\ MinFinal \in Nat /\ MinFinal >= 1
  /\ Checksum \in Nat /\ Checksum >= 1 /\ Checksum <= Preamble
  /\ Preamble \in Nat /\ InterframeGap \in Nat
  /\ MaxExpress \in Nat /\ MaxPreemptable \in Nat
  /\ \A bytes \in ExpressBytes \cup PreemptableBytes : bytes \in Nat /\ bytes >= 1
  BY SizesAssumption

LEMMA Windows ==
  /\ HoldAndRelease \subseteq BOOLEAN
  /\ PreemptableWindow \in Nat /\ PreemptableWindow > InterframeGap
  /\ ExpressWindow \in Nat /\ ExpressWindow > InterframeGap
  /\ HoldAdvance \in Nat /\ HoldAdvance >= 1
  /\ TRUE \in HoldAndRelease => PreemptableWindow - HoldAdvance \in Nat
  <1>1. /\ HoldAndRelease \subseteq BOOLEAN
        /\ TRUE \in HoldAndRelease
             => PreemptableWindow >= InterframeGap + MinNonFinal + MinFinal + Checksum
    BY WindowsAssumption
  <1>2. /\ PreemptableWindow \in Nat \ 0 .. InterframeGap
        /\ ExpressWindow \in Nat \ 0 .. InterframeGap
    BY WindowsAssumption
  <1>3. HoldAdvance \in Nat /\ HoldAdvance >= 1
    BY Sizes DEF HoldAdvance
  <1>4. /\ PreemptableWindow \in Nat /\ PreemptableWindow > InterframeGap
        /\ ExpressWindow \in Nat /\ ExpressWindow > InterframeGap
    BY <1>2, Sizes
  <1>5. PreemptableWindow >= HoldAdvance => PreemptableWindow - HoldAdvance \in Nat
    BY <1>3, <1>4
  <1>6. TRUE \in HoldAndRelease => PreemptableWindow >= HoldAdvance
    BY <1>1 DEF HoldAdvance
  <1>7. QED
    BY <1>1, <1>3, <1>4, <1>5, <1>6, Zenon

\* Times of whole bytes add up and keep their order.
LEMMA Scaling ==
  ASSUME NEW a \in Int, NEW b \in Int
  PROVE  /\ a * ByteTime \in Int
         /\ (a + b) * ByteTime = a * ByteTime + b * ByteTime
         /\ (a - b) * ByteTime = a * ByteTime - b * ByteTime
         /\ a <= b => a * ByteTime <= b * ByteTime
  BY Sizes

LEMMA WireTimes ==
  ASSUME NEW bytes \in Int
  PROVE  /\ WireTime(bytes) = bytes * ByteTime + Preamble * ByteTime
         /\ WireTime(bytes) \in Int
         /\ bytes >= 0 => WireTime(bytes) \in Nat
         /\ bytes >= 1 => WireTime(bytes) >= 1
  BY Sizes, Scaling DEF WireTime

LEMMA WholeBytes ==
  ASSUME NEW time \in Nat
  PROVE  /\ time \div ByteTime \in Nat
         /\ (time \div ByteTime) * ByteTime <= time
         /\ time < (time \div ByteTime) * ByteTime + ByteTime
  BY Sizes

\* Only one number of whole bytes fits.
LEMMA BytesAre ==
  ASSUME NEW time \in Nat, NEW bytes \in Int,
         bytes * ByteTime <= time, time < bytes * ByteTime + ByteTime
  PROVE  time \div ByteTime = bytes
  <1> DEFINE whole == time \div ByteTime
  <1>1. whole \in Nat /\ whole * ByteTime <= time /\ time < whole * ByteTime + ByteTime
    BY WholeBytes
  <1> HIDE DEF whole
  <1>2. ~(whole + 1 <= bytes)
    <2>1. (whole + 1) * ByteTime = whole * ByteTime + ByteTime
      BY <1>1, Scaling, Sizes
    <2>2. QED
      BY <1>1, <2>1, Scaling, Sizes
  <1>3. ~(bytes + 1 <= whole)
    <2>1. (bytes + 1) * ByteTime = bytes * ByteTime + ByteTime
      BY Scaling, Sizes
    <2>2. QED
      BY <1>1, <2>1, Scaling, Sizes
  <1>4. QED
    BY <1>1, <1>2, <1>3 DEF whole

(***************************************************************************)
(* Where a part is cut, and when it ends                                   *)
(***************************************************************************)

\* A checksum takes some time; cutting a part never makes it end later than
\* it would have ended uncut.
LEMMA CutsShorten ==
  ASSUME NEW rest \in Int, NEW elapsed \in Nat,
         elapsed \div ByteTime >= MinNonFinal,
         rest - elapsed \div ByteTime >= MinFinal
  PROVE  elapsed + Checksum * ByteTime <= WireTime(rest)
  <1> DEFINE sent == elapsed \div ByteTime
  <1>1. sent \in Nat /\ elapsed < sent * ByteTime + ByteTime
    BY WholeBytes
  <1> HIDE DEF sent
  <1>2. (sent + 1) * ByteTime = sent * ByteTime + ByteTime
    BY <1>1, Scaling, Sizes
  <1>3. (sent + 1) * ByteTime <= rest * ByteTime
    <2>1. rest - sent >= MinFinal
      BY DEF sent
    <2>2. sent + 1 \in Int /\ sent + 1 <= rest
      BY <1>1, <2>1, Sizes
    <2>3. QED
      BY <2>2, Scaling
  <1>4. Checksum * ByteTime <= Preamble * ByteTime
    BY Scaling, Sizes
  <1>5. /\ sent * ByteTime \in Int /\ rest * ByteTime \in Int
        /\ Checksum * ByteTime \in Int /\ Preamble * ByteTime \in Int
    BY <1>1, Scaling, Sizes
  <1>6. WireTime(rest) = rest * ByteTime + Preamble * ByteTime
    BY WireTimes
  <1>7. QED
    BY <1>1, <1>2, <1>3, <1>4, <1>5, <1>6, Sizes

LEMMA ChecksumTime ==
  /\ Checksum * ByteTime \in Nat
  /\ Checksum * ByteTime >= ByteTime
  BY Sizes, Scaling

LEMMA NonFinalTime ==
  /\ MinNonFinal * ByteTime \in Nat
  /\ (MinNonFinal + 1) * ByteTime = MinNonFinal * ByteTime + ByteTime
  BY Sizes, Scaling

\* What TimeToPreemption waits for.
LEMMA CutsLater ==
  ASSUME NEW elapsed \in Nat, elapsed \div ByteTime < MinNonFinal
  PROVE  LET wait == (MinNonFinal - elapsed \div ByteTime) * ByteTime
         IN  /\ wait \in Nat /\ wait >= 1
             /\ MinNonFinal * ByteTime <= elapsed + wait
             /\ elapsed + wait < (MinNonFinal + 1) * ByteTime
  <1> DEFINE sent == elapsed \div ByteTime
  <1>1. /\ sent \in Nat /\ sent * ByteTime <= elapsed
        /\ elapsed < sent * ByteTime + ByteTime
    BY WholeBytes
  <1>2. sent < MinNonFinal
    OBVIOUS
  <1> HIDE DEF sent
  <1>3. /\ (MinNonFinal - sent) * ByteTime = MinNonFinal * ByteTime - sent * ByteTime
        /\ sent * ByteTime \in Int
    BY <1>1, Scaling, Sizes
  <1>4. (sent + 1) * ByteTime <= MinNonFinal * ByteTime
    <2>1. sent + 1 \in Int /\ MinNonFinal \in Int /\ sent + 1 <= MinNonFinal
      BY <1>1, <1>2, Sizes
    <2>2. QED
      BY <2>1, Scaling
  <1>5. (sent + 1) * ByteTime = sent * ByteTime + ByteTime
    BY <1>1, Scaling, Sizes
  <1>6. /\ (MinNonFinal - sent) * ByteTime \in Nat
        /\ (MinNonFinal - sent) * ByteTime >= 1
        /\ MinNonFinal * ByteTime <= elapsed + (MinNonFinal - sent) * ByteTime
        /\ elapsed + (MinNonFinal - sent) * ByteTime < (MinNonFinal + 1) * ByteTime
    BY <1>1, <1>3, <1>4, <1>5, NonFinalTime, Sizes
  <1>7. QED
    BY <1>6 DEF sent

LEMMA CutIsDue ==
  ASSUME NEW time \in Nat, MinNonFinal * ByteTime <= time,
         time < (MinNonFinal + 1) * ByteTime
  PROVE  time \div ByteTime = MinNonFinal
  BY BytesAre, NonFinalTime, Sizes

LEMMA MaxOrZero ==
  ASSUME NEW n \in Int
  PROVE  Max({n, 0}) = IF n >= 0 THEN n ELSE 0
  BY DEF Max

LEMMA Fields ==
  ASSUME NEW m \in Mac
  PROVE  /\ m.elapsed \in Nat /\ m.preemptedBytesSent \in Nat
         /\ m.endTx \in Timer /\ m.endIFG \in Timer
         /\ m.recheck \in Timer /\ m.preempt \in Timer
         /\ m.curTxFrame \in Frame /\ m.currentExpressFrame \in Frame
         /\ m.currentPreemptableFrame \in Frame
         /\ m.currentPreemptableFrame.bytes \in Nat
         /\ m.onHold \in BOOLEAN /\ m.requestPacket \in BOOLEAN
         /\ m.dangling \in BOOLEAN /\ m.failed \in BOOLEAN
         /\ Rest(m) \in Int
         /\ PayloadBytesSent(m) \in Nat
         /\ PayloadBytesRemaining(m) = Rest(m) - PayloadBytesSent(m)
  <1>1. /\ m.elapsed \in Nat /\ m.preemptedBytesSent \in Nat
        /\ m.endTx \in Timer /\ m.endIFG \in Timer
        /\ m.recheck \in Timer /\ m.preempt \in Timer
        /\ m.curTxFrame \in Frame /\ m.currentExpressFrame \in Frame
        /\ m.currentPreemptableFrame \in Frame
        /\ m.currentPreemptableFrame.bytes \in Nat
        /\ m.onHold \in BOOLEAN /\ m.requestPacket \in BOOLEAN
        /\ m.dangling \in BOOLEAN /\ m.failed \in BOOLEAN
    BY DEF Mac, Frame
  <1>2. PayloadBytesSent(m) \in Nat
    BY <1>1, WholeBytes DEF PayloadBytesSent
  <1>3. QED
    BY <1>1, <1>2 DEF Rest, PayloadBytesRemaining

\* A timer that awaits a cut comes before the end of the part.
LEMMA TimersComeFirst ==
  ASSUME NEW m \in Mac, SendsPart(m), NEW timer \in Nat, AwaitsCut(m, timer)
  PROVE  timer < m.endTx
  <1>1. /\ m.elapsed + timer < MinNonFinal * ByteTime + ByteTime
        /\ Rest(m) >= MinNonFinal + 1
    BY NonFinalTime, Fields, Sizes DEF AwaitsCut, NotScheduled
  <1>2. CASE Uncut(m)
    <2>1. (MinNonFinal + 1) * ByteTime <= Rest(m) * ByteTime
      <3>1. MinNonFinal + 1 \in Int /\ Rest(m) \in Int /\ MinNonFinal + 1 <= Rest(m)
        BY <1>1, Fields, Sizes
      <3>2. QED
        BY <3>1, Scaling
    <2>2. WireTime(Rest(m)) = Rest(m) * ByteTime + Preamble * ByteTime
      BY Fields, WireTimes
    <2>3. Preamble * ByteTime \in Nat /\ Rest(m) * ByteTime \in Int
      BY Fields, Scaling, Sizes
    <2>4. QED
      BY <1>1, <1>2, <2>1, <2>2, <2>3, NonFinalTime, Fields, Sizes
         DEF Uncut, PartEnd, SendsPart
  <1>3. CASE \E sent \in 0 .. m.currentPreemptableFrame.bytes : CutAfter(m, sent)
    <2>1. PICK sent \in 0 .. m.currentPreemptableFrame.bytes : CutAfter(m, sent)
      BY <1>3
    <2>2. MinNonFinal * ByteTime <= sent * ByteTime /\ sent * ByteTime \in Int
      BY <2>1, Fields, Scaling, Sizes DEF CutAfter
    <2>3. sent * ByteTime + Checksum * ByteTime <= m.elapsed + m.endTx
      BY <2>1, <2>2, ChecksumTime, Fields DEF CutAfter, PartEnd, SendsPart
    <2>4. QED
      BY <1>1, <2>2, <2>3, ChecksumTime, NonFinalTime, Fields, Sizes DEF SendsPart
  <1>4. QED
    BY <1>2, <1>3 DEF SendsPart

\* The last part of a frame has been sent.
LEMMA FrameEnds ==
  ASSUME NEW m \in Mac, SendsPart(m), m.endTx = 0, Uncut(m), Rest(m) >= 1
  PROVE  /\ PayloadBytesSent(m) - Checksum <= m.currentPreemptableFrame.bytes + Preamble
         /\ BytesSent(m) = m.currentPreemptableFrame.bytes
  <1>1. m.elapsed = (Rest(m) + Preamble) * ByteTime
    BY Fields DEF Uncut, PartEnd, WireTime
  <1>2. PayloadBytesSent(m) = Rest(m) + Preamble
    BY <1>1, BytesAre, Fields, Sizes DEF PayloadBytesSent
  <1>3. PayloadBytesSent(m) - Checksum >= 0 /\ PayloadBytesSent(m) - Checksum \in Int
    BY <1>2, Fields, Sizes
  <1>4. m.preemptedBytesSent + Max({PayloadBytesSent(m) - Checksum, 0})
          = m.currentPreemptableFrame.bytes + Preamble - Checksum
    BY <1>2, <1>3, MaxOrZero, Fields, Sizes DEF Rest
  <1>5. QED
    BY <1>2, <1>4, Fields, Sizes DEF BytesSent, Rest

\* A part that was cut has been sent, and the rest is still to come.
LEMMA FragmentEnds ==
  ASSUME NEW m \in Mac, SendsPart(m), m.endTx = 0,
         NEW sent \in 0 .. m.currentPreemptableFrame.bytes, CutAfter(m, sent)
  PROVE  /\ PayloadBytesSent(m) - Checksum <= m.currentPreemptableFrame.bytes + Preamble
         /\ BytesSent(m) = m.preemptedBytesSent + sent
         /\ BytesSent(m) < m.currentPreemptableFrame.bytes
  <1>1. sent + Checksum \in Nat /\ sent * ByteTime \in Int
    BY Fields, Scaling, Sizes
  <1>2. /\ (sent + Checksum) * ByteTime = sent * ByteTime + Checksum * ByteTime
        /\ (sent + 1) * ByteTime = sent * ByteTime + ByteTime
    BY Fields, Scaling, Sizes
  <1>3. /\ (sent + Checksum) * ByteTime <= m.elapsed
        /\ m.elapsed < (sent + Checksum) * ByteTime + ByteTime
    BY <1>1, <1>2, ChecksumTime, Fields, Sizes DEF CutAfter, PartEnd
  <1>4. PayloadBytesSent(m) = sent + Checksum
    BY <1>1, <1>3, BytesAre, Fields DEF PayloadBytesSent
  <1>5. Max({PayloadBytesSent(m) - Checksum, 0}) = sent
    BY <1>4, MaxOrZero, Fields, Sizes
  <1>6. Rest(m) - sent >= MinFinal
    BY DEF CutAfter
  <1>7. /\ m.preemptedBytesSent + sent < m.currentPreemptableFrame.bytes
        /\ m.preemptedBytesSent + sent + Checksum
             # m.currentPreemptableFrame.bytes + Preamble
    BY <1>6, Fields, Sizes DEF Rest
  <1>8. QED
    BY <1>4, <1>5, <1>7, Fields, Sizes DEF BytesSent

(***************************************************************************)
(* The MAC's methods                                                       *)
(***************************************************************************)
LEMMA Frames ==
  ASSUME NEW f
  PROVE  /\ f \in ExpressFrames => f \in Frame /\ f.express /\ f.bytes >= 1 /\ f # NoFrame
         /\ f \in PreemptableFrames => f \in Frame /\ ~f.express /\ f.bytes >= 1 /\ f # NoFrame
         /\ NoFrame \in Frame
  <1>1. ASSUME f \in ExpressFrames
        PROVE  f \in Frame /\ f.express /\ f.bytes >= 1 /\ f # NoFrame
    <2>1. f.bytes \in ExpressBytes /\ f.express = TRUE
      BY <1>1 DEF ExpressFrames
    <2>2. f.bytes \in Nat /\ f.bytes >= 1
      BY <2>1, Sizes
    <2>3. f \in Frame
      BY <1>1, <2>2 DEF ExpressFrames, Frame
    <2>4. QED
      BY <2>1, <2>2, <2>3 DEF NoFrame
  <1>2. ASSUME f \in PreemptableFrames
        PROVE  f \in Frame /\ ~f.express /\ f.bytes >= 1 /\ f # NoFrame
    <2>1. f.bytes \in PreemptableBytes /\ f.express = FALSE
      BY <1>2 DEF PreemptableFrames
    <2>2. f.bytes \in Nat /\ f.bytes >= 1
      BY <2>1, Sizes
    <2>3. f \in Frame
      BY <1>2, <2>2 DEF PreemptableFrames, Frame
    <2>4. QED
      BY <2>1, <2>2, <2>3 DEF NoFrame
  <1>3. NoFrame \in Frame
    BY DEF Frame, NoFrame
  <1>4. QED
    BY <1>1, <1>2, <1>3

\* When a tick is due no express frame fits any more.
LEMMA NothingFitsBeforeTick ==
  ASSUME FramesInv, enableHoldAndRelease, untilTick = 0
  PROVE  ~ExpressReady
  <1>1. SUFFICES ASSUME expressQueue # <<>>
                 PROVE  ~(WireTime(Head(expressQueue).bytes) <= 0)
    BY DEF ExpressReady
  <1>2. Head(expressQueue) \in ExpressFrames
    BY <1>1 DEF FramesInv
  <1>3. Head(expressQueue).bytes \in Nat /\ Head(expressQueue).bytes >= 1
    BY <1>2, Frames DEF Frame
  <1>4. WireTime(Head(expressQueue).bytes) \in Nat /\ WireTime(Head(expressQueue).bytes) >= 1
    BY <1>3, WireTimes
  <1>5. QED
    BY <1>4

LEMMA NotScheduledIsNoTime ==
  /\ NotScheduled \notin Nat /\ NotScheduled \in Timer
  /\ \A time \in Nat : time \in Timer /\ time # NotScheduled
  /\ \A time \in Timer : time # NotScheduled => time \in Nat
  BY DEF NotScheduled, Timer

\* The start of an express frame.
LEMMA ExpressStarts ==
  ASSUME NEW m \in Mac, ~m.failed, m.curTxFrame \in ExpressFrames,
         m.currentExpressFrame = NoFrame, m.transmitting = "nothing",
         m.endIFG = NotScheduled, m.recheck = NotScheduled, m.preempt = NotScheduled
  PROVE  LET n == StartFrameTransmission(m)
         IN  /\ n \in Mac /\ SendsExpress(n) /\ ~n.failed
             /\ n.curTxFrame = m.curTxFrame
             /\ n.endTx = WireTime(m.curTxFrame.bytes)
             /\ n.currentPreemptableFrame = m.currentPreemptableFrame
             /\ n.preemptedBytesSent = m.preemptedBytesSent
             /\ n.onHold = m.onHold /\ n.requestPacket = m.requestPacket
  <1> DEFINE n == [m EXCEPT !.transmitState = "TRANSMITTING", !.elapsed = 0,
                            !.transmitting = "express",
                            !.endTx = WireTime(m.curTxFrame.bytes),
                            !.failed = FALSE]
  <1>1. m.curTxFrame # NoFrame /\ m.curTxFrame.express /\ m.curTxFrame.bytes \in Nat
    BY Frames DEF Frame
  <1>2. StartFrameTransmission(m) = n
    BY <1>1, Fields DEF StartFrameTransmission, FailUnless, Mac
  <1>3. WireTime(m.curTxFrame.bytes) \in Nat
    BY <1>1, WireTimes
  <1>4. /\ n.transmitState = "TRANSMITTING" /\ n.elapsed = 0
        /\ n.transmitting = "express"
        /\ n.endTx = WireTime(m.curTxFrame.bytes)
        /\ n.failed = FALSE
        /\ n.curTxFrame = m.curTxFrame /\ n.currentExpressFrame = m.currentExpressFrame
        /\ n.currentPreemptableFrame = m.currentPreemptableFrame
        /\ n.preemptedBytesSent = m.preemptedBytesSent
        /\ n.onHold = m.onHold /\ n.requestPacket = m.requestPacket
        /\ n.endIFG = m.endIFG /\ n.recheck = m.recheck /\ n.preempt = m.preempt
    BY DEF Mac
  <1>5. n \in Mac
    BY <1>3, NotScheduledIsNoTime DEF Mac
  <1> HIDE DEF n
  <1>6. QED
    BY <1>1, <1>2, <1>3, <1>4, <1>5 DEF SendsExpress

\* The start of a preemptable frame, or of what is left of it.
LEMMA PartStarts ==
  ASSUME NEW m \in Mac, ~m.failed, m.curTxFrame \in PreemptableFrames,
         m.currentExpressFrame = NoFrame, m.transmitting = "nothing",
         m.endIFG = NotScheduled, m.recheck = NotScheduled, m.preempt = NotScheduled,
         \/ m.currentPreemptableFrame = NoFrame
         \/ m.currentPreemptableFrame = m.curTxFrame /\ Rest(m) >= 1
  PROVE  LET n == StartFrameTransmission(m)
         IN  /\ n \in Mac /\ SendsPart(n) /\ Uncut(n) /\ ~n.failed
             /\ n.elapsed = 0
             /\ n.currentExpressFrame = NoFrame
             /\ n.currentPreemptableFrame = m.curTxFrame
             /\ n.preemptedBytesSent = IF m.currentPreemptableFrame = NoFrame
                                         THEN 0 ELSE m.preemptedBytesSent
             /\ Rest(n) >= 1
             /\ n.recheck = NotScheduled /\ n.preempt = NotScheduled
             /\ n.onHold = m.onHold /\ n.requestPacket = m.requestPacket
  <1> DEFINE f == m.curTxFrame
             sent == IF m.currentPreemptableFrame = NoFrame
                       THEN 0 ELSE m.preemptedBytesSent
             n == [m EXCEPT !.transmitState = "TRANSMITTING", !.elapsed = 0,
                            !.transmitting = "preemptable",
                            !.currentPreemptableFrame = f,
                            !.preemptedBytesSent = sent,
                            !.endTx = WireTime(f.bytes - sent),
                            !.failed = FALSE]
  <1>1. f # NoFrame /\ ~f.express /\ f.bytes \in Nat /\ f.bytes >= 1 /\ f \in Frame
    BY Frames DEF Frame
  <1>2. sent = IF m.currentPreemptableFrame = f THEN m.preemptedBytesSent ELSE 0
    BY <1>1
  <1>3. StartFrameTransmission(m) = n
    BY <1>1, <1>2, Fields DEF StartFrameTransmission, FailUnless, Mac
  <1>4. sent \in Nat /\ f.bytes - sent \in Int /\ f.bytes - sent >= 1
    BY <1>1, Fields DEF Rest
  <1>5. WireTime(f.bytes - sent) \in Nat
    BY <1>4, WireTimes
  <1> HIDE DEF f, sent
  <1>6. /\ n.transmitState = "TRANSMITTING" /\ n.elapsed = 0
        /\ n.transmitting = "preemptable"
        /\ n.endTx = WireTime(f.bytes - sent)
        /\ n.failed = FALSE
        /\ n.curTxFrame = m.curTxFrame /\ n.currentExpressFrame = m.currentExpressFrame
        /\ n.currentPreemptableFrame = f
        /\ n.preemptedBytesSent = sent
        /\ n.onHold = m.onHold /\ n.requestPacket = m.requestPacket
        /\ n.endIFG = m.endIFG /\ n.recheck = m.recheck /\ n.preempt = m.preempt
    BY DEF Mac
  <1>7. n \in Mac
    BY <1>1, <1>4, <1>5, NotScheduledIsNoTime DEF Mac
  <1> HIDE DEF n
  <1>8. Rest(n) = f.bytes - sent /\ PartEnd(n) = WireTime(f.bytes - sent)
    BY <1>5, <1>6 DEF Rest, PartEnd
  <1>9. SendsPart(n) /\ Uncut(n)
    BY <1>1, <1>5, <1>6, <1>8 DEF SendsPart, Uncut, AwaitsCut, f
  <1>10. QED
    BY <1>3, <1>4, <1>6, <1>7, <1>8, <1>9 DEF f, sent

\* endIFGPeriod and release: the MAC looks for its next frame.
LEMMA NextFrame ==
  ASSUME NEW m \in Mac, ~m.failed, m.curTxFrame = NoFrame, m.transmitting = "nothing",
         m.endTx = NotScheduled, m.endIFG = NotScheduled,
         m.recheck = NotScheduled, m.preempt = NotScheduled,
         m.currentExpressFrame \in ExpressFrames \cup {NoFrame},
         m.currentPreemptableFrame \in PreemptableFrames \cup {NoFrame},
         m.currentPreemptableFrame # NoFrame => Rest(m) >= 1,
         NEW pending \in BOOLEAN
  PROVE  LET n == BeginSendFrames(GetNextFrameFromQueue(m, pending))
         IN  /\ n \in Mac /\ ~n.failed
             /\ n.onHold = m.onHold
             /\ n.currentPreemptableFrame = m.currentPreemptableFrame
             /\ n.preemptedBytesSent = m.preemptedBytesSent
             /\ \/ /\ m.currentExpressFrame # NoFrame
                   /\ SendsExpress(n) /\ n.curTxFrame = m.currentExpressFrame
                   /\ n.endTx = WireTime(n.curTxFrame.bytes)
                   /\ n.requestPacket = m.requestPacket
                \/ /\ m.currentExpressFrame = NoFrame /\ ExpressReady
                   /\ Idle(n) /\ n.requestPacket
                \/ /\ m.currentExpressFrame = NoFrame /\ ~ExpressReady
                   /\ ~m.onHold /\ m.currentPreemptableFrame # NoFrame
                   /\ SendsPart(n) /\ Uncut(n) /\ n.elapsed = 0
                   /\ n.currentExpressFrame = NoFrame
                   /\ n.recheck = NotScheduled /\ n.preempt = NotScheduled
                   /\ n.requestPacket = m.requestPacket
                \/ /\ m.currentExpressFrame = NoFrame /\ ~ExpressReady
                   /\ m.onHold \/ m.currentPreemptableFrame = NoFrame
                   /\ Idle(n)
                   /\ n.requestPacket <=> (m.requestPacket \/ ~pending)
  <1> DEFINE n == BeginSendFrames(GetNextFrameFromQueue(m, pending))
  <1>1. CASE m.currentExpressFrame # NoFrame
    <2> DEFINE k == [m EXCEPT !.curTxFrame = m.currentExpressFrame,
                              !.currentExpressFrame = NoFrame,
                              !.failed = FALSE]
    <2>1. GetNextFrameFromQueue(m, pending) = k
      BY <1>1, Fields DEF GetNextFrameFromQueue, FailUnless, Mac
    <2>2. /\ k.curTxFrame = m.currentExpressFrame /\ k.currentExpressFrame = NoFrame
          /\ ~k.failed /\ k.transmitting = "nothing" /\ k.endIFG = NotScheduled
          /\ k.recheck = NotScheduled /\ k.preempt = NotScheduled
          /\ k.currentPreemptableFrame = m.currentPreemptableFrame
          /\ k.preemptedBytesSent = m.preemptedBytesSent
          /\ k.onHold = m.onHold /\ k.requestPacket = m.requestPacket
      BY DEF Mac
    <2>3. k \in Mac
      BY Fields, Frames DEF Mac
    <2> HIDE DEF k
    <2>4. n = StartFrameTransmission(k)
      BY <1>1, <2>1, <2>2 DEF BeginSendFrames
    <2>5. k.curTxFrame \in ExpressFrames
      BY <1>1, <2>2
    <2> HIDE DEF n
    <2>6. QED
      BY <1>1, <2>2, <2>3, <2>4, <2>5, ExpressStarts DEF n
  <1>2. CASE m.currentExpressFrame = NoFrame /\ ExpressReady
    <2> DEFINE k == [m EXCEPT !.requestPacket = TRUE, !.failed = FALSE]
    <2>1. GetNextFrameFromQueue(m, pending) = k
      BY <1>2, Fields DEF GetNextFrameFromQueue, RequestsExpressFrame, FailUnless, Mac
    <2>2. n = [k EXCEPT !.transmitState = "TX_IDLE"]
      BY <2>1 DEF BeginSendFrames, Mac
    <2>3. n \in Mac /\ ~n.failed /\ Idle(n) /\ n.requestPacket
      BY <1>2, <2>2, Fields DEF Idle, Mac
    <2>4. /\ n.onHold = m.onHold
          /\ n.currentPreemptableFrame = m.currentPreemptableFrame
          /\ n.preemptedBytesSent = m.preemptedBytesSent
      BY <2>2 DEF Mac
    <2> HIDE DEF n
    <2>5. QED
      BY <1>2, <2>3, <2>4 DEF n
  <1>3. CASE /\ m.currentExpressFrame = NoFrame /\ ~ExpressReady
             /\ ~m.onHold /\ m.currentPreemptableFrame # NoFrame
    <2> DEFINE k == [m EXCEPT !.curTxFrame = m.currentPreemptableFrame,
                              !.failed = FALSE]
    <2>1. GetNextFrameFromQueue(m, pending) = k
      BY <1>3, Fields DEF GetNextFrameFromQueue, RequestsExpressFrame, FailUnless, Mac
    <2>2. /\ k.curTxFrame = m.currentPreemptableFrame /\ k.currentExpressFrame = NoFrame
          /\ ~k.failed /\ k.transmitting = "nothing" /\ k.endIFG = NotScheduled
          /\ k.recheck = NotScheduled /\ k.preempt = NotScheduled
          /\ k.currentPreemptableFrame = m.currentPreemptableFrame
          /\ k.preemptedBytesSent = m.preemptedBytesSent
          /\ k.onHold = m.onHold /\ k.requestPacket = m.requestPacket
      BY <1>3 DEF Mac
    <2>3. k \in Mac
      BY Fields, Frames DEF Mac
    <2> HIDE DEF k
    <2>4. n = StartFrameTransmission(k)
      BY <1>3, <2>1, <2>2 DEF BeginSendFrames
    <2>5. k.curTxFrame \in PreemptableFrames
      BY <1>3, <2>2
    <2>6. Rest(k) >= 1
      BY <1>3, <2>2 DEF Rest
    <2> HIDE DEF n
    <2>7. QED
      BY <1>3, <2>2, <2>3, <2>4, <2>5, <2>6, PartStarts DEF n
  <1>4. CASE /\ m.currentExpressFrame = NoFrame /\ ~ExpressReady
             /\ m.onHold \/ m.currentPreemptableFrame = NoFrame
    <2> DEFINE k == [m EXCEPT !.requestPacket = m.requestPacket \/ ~pending,
                              !.failed = FALSE]
    <2>1. GetNextFrameFromQueue(m, pending) = k
      BY <1>4, Fields DEF GetNextFrameFromQueue, RequestsExpressFrame, FailUnless, Mac
    <2>2. n = [k EXCEPT !.transmitState = "TX_IDLE"]
      BY <2>1 DEF BeginSendFrames, Mac
    <2>3. n \in Mac /\ ~n.failed /\ Idle(n)
      BY <1>4, <2>2, Fields DEF Idle, Mac
    <2>4. /\ n.onHold = m.onHold
          /\ n.currentPreemptableFrame = m.currentPreemptableFrame
          /\ n.preemptedBytesSent = m.preemptedBytesSent
          /\ n.requestPacket <=> (m.requestPacket \/ ~pending)
      BY <2>2 DEF Mac
    <2> HIDE DEF n
    <2>5. QED
      BY <1>4, <2>3, <2>4 DEF n
  <1>5. QED
    BY <1>1, <1>2, <1>3, <1>4

\* What is known of a part does not depend on the rest of the record.
LEMMA SamePart ==
  ASSUME NEW m \in Mac, SendsPart(m), NEW n \in Mac,
         n.transmitState = m.transmitState, n.transmitting = m.transmitting,
         n.curTxFrame = m.curTxFrame,
         n.currentPreemptableFrame = m.currentPreemptableFrame,
         n.preemptedBytesSent = m.preemptedBytesSent,
         n.elapsed = m.elapsed, n.endTx = m.endTx, n.endIFG = m.endIFG,
         n.recheck \in {m.recheck, NotScheduled} \/ AwaitsCut(n, n.recheck),
         n.preempt \in {m.preempt, NotScheduled} \/ AwaitsCut(n, n.preempt)
  PROVE  /\ SendsPart(n) /\ Rest(n) = Rest(m) /\ PartEnd(n) = PartEnd(m)
         /\ Uncut(m) <=> Uncut(n)
         /\ \A sent : CutAfter(m, sent) <=> CutAfter(n, sent)
         /\ PayloadBytesSent(n) = PayloadBytesSent(m)
         /\ IsPreemptionNowPossible(n) <=> IsPreemptionNowPossible(m)
  <1>1. Rest(n) = Rest(m) /\ PartEnd(n) = PartEnd(m)
    BY DEF Rest, PartEnd
  <1>2. PayloadBytesSent(n) = PayloadBytesSent(m)
    BY DEF PayloadBytesSent
  <1>3. IsPreemptionNowPossible(n) <=> IsPreemptionNowPossible(m)
    BY <1>2 DEF IsPreemptionNowPossible, PayloadBytesRemaining
  <1>4. Uncut(m) <=> Uncut(n)
    BY <1>1 DEF Uncut
  <1>5. \A sent : CutAfter(m, sent) <=> CutAfter(n, sent)
    BY <1>1 DEF CutAfter
  <1>6. AwaitsCut(n, n.recheck)
    BY <1>1 DEF AwaitsCut, SendsPart
  <1>7. AwaitsCut(n, n.preempt)
    BY <1>1 DEF AwaitsCut, SendsPart
  <1>8. SendsPart(n)
    BY <1>1, <1>4, <1>5, <1>6, <1>7 DEF SendsPart
  <1>9. QED
    BY <1>1, <1>2, <1>3, <1>4, <1>5, <1>8

LEMMA NowPossible ==
  ASSUME NEW m \in Mac, m.transmitting = "preemptable"
  PROVE  IsPreemptionNowPossible(m) <=>
           Rest(m) - PayloadBytesSent(m) >= MinFinal /\ PayloadBytesSent(m) >= MinNonFinal
  BY Fields DEF IsPreemptionNowPossible

\* A part is cut: preemptCurrentFrame.
LEMMA PartIsCut ==
  ASSUME NEW m \in Mac, ~m.failed, SendsPart(m), IsPreemptionNowPossible(m)
  PROVE  LET n == PreemptCurrentFrame(m)
         IN  /\ n = [m EXCEPT !.endTx = Checksum * ByteTime]
             /\ n \in Mac /\ ~n.failed /\ SendsPart(n)
             /\ CutAfter(n, PayloadBytesSent(n))
             /\ PayloadBytesSent(n) = PayloadBytesSent(m)
             /\ IsPreemptionNowPossible(n)
  <1> DEFINE n == [m EXCEPT !.endTx = Checksum * ByteTime]
             sent == PayloadBytesSent(m)
  <1>1. PreemptCurrentFrame(m) = n
    BY Fields DEF PreemptCurrentFrame, FailUnless, SendsPart, Mac
  <1>2. n \in Mac
    BY ChecksumTime, NotScheduledIsNoTime DEF Mac
  <1>3. /\ n.transmitState = m.transmitState /\ n.transmitting = m.transmitting
        /\ n.curTxFrame = m.curTxFrame
        /\ n.currentPreemptableFrame = m.currentPreemptableFrame
        /\ n.preemptedBytesSent = m.preemptedBytesSent
        /\ n.elapsed = m.elapsed /\ n.endTx = Checksum * ByteTime
        /\ n.endIFG = m.endIFG /\ n.failed = m.failed
        /\ n.recheck = m.recheck /\ n.preempt = m.preempt
    BY DEF Mac
  <1> HIDE DEF n
  <1>4. /\ sent >= MinNonFinal /\ Rest(m) - sent >= MinFinal
        /\ sent = m.elapsed \div ByteTime /\ sent \in Nat
    BY Fields, NowPossible DEF PayloadBytesSent, SendsPart
  <1>5. Rest(n) = Rest(m) /\ PartEnd(n) = m.elapsed + Checksum * ByteTime
    BY <1>3 DEF Rest, PartEnd
  <1>6. PayloadBytesSent(n) = sent
    BY <1>3 DEF PayloadBytesSent
  <1>7. PartEnd(n) <= WireTime(Rest(n))
    BY <1>4, <1>5, CutsShorten, Fields
  <1>8. sent \in 0 .. n.currentPreemptableFrame.bytes
    BY <1>3, <1>4, Fields, Sizes DEF Rest
  <1>9. CutAfter(n, sent)
    <2>1. /\ sent * ByteTime <= m.elapsed
          /\ m.elapsed < sent * ByteTime + ByteTime
      BY <1>4, WholeBytes, Fields
    <2>2. (sent + 1) * ByteTime = sent * ByteTime + ByteTime
      BY <1>4, Scaling, Sizes
    <2>3. PartEnd(n) - Checksum * ByteTime = m.elapsed
      BY <1>5, ChecksumTime, Fields
    <2>4. QED
      BY <1>3, <1>4, <1>5, <2>1, <2>2, <2>3, ChecksumTime DEF CutAfter
  <1>10. AwaitsCut(n, n.recheck) /\ AwaitsCut(n, n.preempt)
    BY <1>3, <1>5 DEF AwaitsCut, SendsPart
  <1>11. n.endTx \in Nat
    BY <1>3, ChecksumTime
  <1>12. SendsPart(n)
    BY <1>3, <1>7, <1>8, <1>9, <1>10, <1>11 DEF SendsPart
  <1>13. IsPreemptionNowPossible(n)
    BY <1>2, <1>3, <1>4, <1>5, <1>6, NowPossible DEF SendsPart
  <1>14. QED
    BY <1>1, <1>2, <1>3, <1>6, <1>9, <1>12, <1>13 DEF n

\* A condition that holds leaves the MAC as it is.
LEMMA NothingFails ==
  ASSUME NEW m \in Mac
  PROVE  FailUnless(TRUE, m) = m
  <1>1. (m.failed \/ ~TRUE) = m.failed
    BY DEF Mac
  <1>2. [m EXCEPT !.failed = m.failed] = m
    BY DEF Mac
  <1>3. QED
    BY <1>1, <1>2 DEF FailUnless

\* An express frame comes to a MAC that sends a part, which it cuts.
LEMMA ExpressCuts ==
  ASSUME NEW m \in Mac, ~m.failed, SendsPart(m), IsPreemptionNowPossible(m),
         NEW f \in ExpressFrames
  PROVE  LET n == HandleUpperPacket(m, f)
         IN  /\ n \in Mac /\ ~n.failed /\ SendsPart(n)
             /\ n.endTx = Checksum * ByteTime
             /\ n.currentExpressFrame = f
             /\ n.currentPreemptableFrame = m.currentPreemptableFrame
             /\ n.preemptedBytesSent = m.preemptedBytesSent
             /\ n.elapsed = m.elapsed
             /\ n.recheck = NotScheduled /\ n.preempt = m.preempt
             /\ n.onHold = m.onHold /\ n.requestPacket = m.requestPacket
  <1> DEFINE k == [m EXCEPT !.currentExpressFrame = f, !.recheck = NotScheduled,
                            !.dangling = m.dangling \/ m.recheck # NotScheduled]
             n == HandleUpperPacket(m, f)
  <1>1. f \in Frame /\ f.express
    BY Frames
  <1>2. k \in Mac
    BY <1>1, Fields, NotScheduledIsNoTime DEF Mac
  <1>3. /\ k.transmitState = m.transmitState /\ k.transmitting = m.transmitting
        /\ k.curTxFrame = m.curTxFrame /\ k.currentExpressFrame = f
        /\ k.currentPreemptableFrame = m.currentPreemptableFrame
        /\ k.preemptedBytesSent = m.preemptedBytesSent
        /\ k.elapsed = m.elapsed /\ k.endTx = m.endTx /\ k.endIFG = m.endIFG
        /\ k.recheck = NotScheduled /\ k.preempt = m.preempt
        /\ k.onHold = m.onHold /\ k.requestPacket = m.requestPacket
        /\ k.failed = m.failed
    BY DEF Mac
  <1>4. [WithoutRecheck(m) EXCEPT !.currentExpressFrame = f] = k
    BY DEF WithoutRecheck, Mac
  <1>5. n = FailUnless(TRUE, PreemptCurrentFrame(k))
    <2>1. m.transmitting = "preemptable" /\ m.transmitState = "TRANSMITTING"
      BY DEF SendsPart
    <2> DEFINE cut == PreemptCurrentFrame([WithoutRecheck(m) EXCEPT !.currentExpressFrame = f])
    <2>2. n = [cut EXCEPT !.failed = @ \/ ~TRUE]
      BY <1>1, <2>1 DEF HandleUpperPacket, FailUnless
    <2>3. QED
      BY <1>4, <2>2 DEF FailUnless
  <1> HIDE DEF k, n
  <1>6. SendsPart(k) /\ IsPreemptionNowPossible(k)
    BY <1>2, <1>3, SamePart
  <1>7. /\ PreemptCurrentFrame(k) = [k EXCEPT !.endTx = Checksum * ByteTime]
        /\ PreemptCurrentFrame(k) \in Mac /\ ~PreemptCurrentFrame(k).failed
        /\ SendsPart(PreemptCurrentFrame(k))
    BY <1>2, <1>3, <1>6, PartIsCut
  <1>8. n = PreemptCurrentFrame(k)
    BY <1>5, <1>7, NothingFails
  <1>9. QED
    BY <1>2, <1>3, <1>7, <1>8 DEF n, Mac

\* A frame comes to an idle MAC, which starts it.
LEMMA ExpressComes ==
  ASSUME NEW m \in Mac, ~m.failed, Idle(m), NEW f \in ExpressFrames
  PROVE  LET n == HandleUpperPacket(m, f)
         IN  /\ n \in Mac /\ ~n.failed /\ SendsExpress(n)
             /\ n.curTxFrame = f /\ n.endTx = WireTime(f.bytes)
             /\ n.currentPreemptableFrame = m.currentPreemptableFrame
             /\ n.preemptedBytesSent = m.preemptedBytesSent
             /\ n.onHold = m.onHold /\ n.requestPacket = m.requestPacket
  <1> DEFINE k == [m EXCEPT !.curTxFrame = f]
             n == HandleUpperPacket(m, f)
  <1>1. f \in Frame /\ f.express
    BY Frames
  <1>2. k \in Mac
    BY <1>1 DEF Mac
  <1>3. /\ k.curTxFrame = f /\ k.currentExpressFrame = NoFrame
        /\ k.transmitting = "nothing" /\ k.endIFG = NotScheduled
        /\ k.recheck = NotScheduled /\ k.preempt = NotScheduled
        /\ k.currentPreemptableFrame = m.currentPreemptableFrame
        /\ k.preemptedBytesSent = m.preemptedBytesSent
        /\ k.onHold = m.onHold /\ k.requestPacket = m.requestPacket
        /\ k.failed = m.failed
    BY DEF Mac, Idle
  <1>4. [WithoutRecheck(m) EXCEPT !.curTxFrame = f] = k
    BY Fields DEF WithoutRecheck, Idle, Mac
  <1>5. n = FailUnless(TRUE, StartFrameTransmission(k))
    BY <1>1, <1>4 DEF HandleUpperPacket, Idle, FailUnless
  <1> HIDE DEF k, n
  <1>6. /\ StartFrameTransmission(k) \in Mac /\ ~StartFrameTransmission(k).failed
        /\ SendsExpress(StartFrameTransmission(k))
    BY <1>2, <1>3, ExpressStarts
  <1>7. n = StartFrameTransmission(k)
    BY <1>5, <1>6 DEF FailUnless, Mac
  <1>8. QED
    BY <1>2, <1>3, <1>7, ExpressStarts DEF n

LEMMA PreemptableComes ==
  ASSUME NEW m \in Mac, ~m.failed, Idle(m), ~m.onHold,
         m.currentPreemptableFrame = NoFrame, NEW f \in PreemptableFrames
  PROVE  LET n == HandleUpperPacket(m, f)
         IN  /\ n \in Mac /\ ~n.failed /\ SendsPart(n) /\ Uncut(n)
             /\ n.elapsed = 0 /\ Rest(n) >= 1
             /\ n.currentExpressFrame = NoFrame
             /\ n.currentPreemptableFrame = f /\ n.preemptedBytesSent = 0
             /\ n.recheck = NotScheduled /\ n.preempt = NotScheduled
             /\ n.onHold = m.onHold /\ n.requestPacket = m.requestPacket
  <1> DEFINE k == [m EXCEPT !.curTxFrame = f]
             n == HandleUpperPacket(m, f)
  <1>1. f \in Frame /\ ~f.express
    BY Frames
  <1>2. k \in Mac
    BY <1>1 DEF Mac
  <1>3. /\ k.curTxFrame = f /\ k.currentExpressFrame = NoFrame
        /\ k.transmitting = "nothing" /\ k.endIFG = NotScheduled
        /\ k.recheck = NotScheduled /\ k.preempt = NotScheduled
        /\ k.currentPreemptableFrame = NoFrame
        /\ k.onHold = m.onHold /\ k.requestPacket = m.requestPacket
        /\ k.failed = m.failed
    BY DEF Mac, Idle
  <1>4. n = FailUnless(TRUE, StartFrameTransmission(k))
    BY <1>1 DEF HandleUpperPacket, Idle, FailUnless
  <1> HIDE DEF k, n
  <1>5. StartFrameTransmission(k) \in Mac /\ ~StartFrameTransmission(k).failed
    BY <1>2, <1>3, PartStarts
  <1>6. n = StartFrameTransmission(k)
    BY <1>4, <1>5 DEF FailUnless, Mac
  <1>7. QED
    BY <1>2, <1>3, <1>6, PartStarts DEF n

(***************************************************************************)
(* What the steps do to the MAC                                            *)
(***************************************************************************)

\* The interrupted frame, if there is one, is still that.
SameRest ==
  /\ mac'.currentPreemptableFrame = mac.currentPreemptableFrame
  /\ mac'.preemptedBytesSent = mac.preemptedBytesSent

\* The stage can be told from a few fields.
LEMMA Stages ==
  ASSUME StageInv, mac \in Mac
  PROVE  /\ mac.transmitting = "express" => SendsExpress(mac) /\ ~mac.requestPacket /\ ~packetRequested
         /\ mac.transmitting = "preemptable" =>
              /\ SendsPart(mac) /\ ~packetRequested
              /\ mac.requestPacket =>
                   ExpressReady /\ IsPreemptionNowPossible(mac) /\ mac.endTx # 0
         /\ mac.transmitState = "TX_IDLE" => Idle(mac) /\ (mac.requestPacket <=> ~packetRequested)
         /\ mac.endIFG # NotScheduled => InGap(mac) /\ ~mac.requestPacket /\ ~packetRequested
         /\ mac.transmitState = "WAIT_IFG" => InGap(mac) /\ ~mac.requestPacket /\ ~packetRequested
         /\ mac.recheck # NotScheduled \/ mac.preempt # NotScheduled => SendsPart(mac)
         /\ mac.transmitting = "nothing" => Idle(mac) \/ InGap(mac)
  BY DEF StageInv, Idle, InGap, SendsExpress, SendsPart, NotScheduled

LEMMA ExpressEnds ==
  ASSUME MacInv, HandleEndTxPeriodExpress
  PROVE  /\ SendsExpress(mac)
         /\ mac' \in Mac /\ InGap(mac') /\ ~mac'.failed
         /\ mac'.endIFG = InterframeGap
         /\ mac'.currentExpressFrame = NoFrame /\ SameRest
         /\ mac'.onHold = mac.onHold /\ ~mac'.requestPacket
  <1>1. SendsExpress(mac) /\ ~mac.requestPacket /\ mac \in Mac /\ ~mac.failed
    BY Stages DEF HandleEndTxPeriodExpress, MacInv, TypeOK
  <1>2. mac' = EndTxPeriod(mac)
    BY DEF HandleEndTxPeriodExpress
  <1>3. mac' \in Mac
    BY <1>1, <1>2, Frames, NotScheduledIsNoTime, Sizes DEF EndTxPeriod, Mac
  <1>4. InGap(mac')
    BY <1>1, <1>2, Sizes DEF EndTxPeriod, Mac, InGap, SendsExpress
  <1>5. QED
    BY <1>1, <1>2, <1>3, <1>4 DEF EndTxPeriod, Mac, SendsExpress, SameRest

LEMMA PartEnds ==
  ASSUME MacInv, HandleEndTxPeriodPreemptable
  PROVE  /\ SendsPart(mac) /\ ~mac.requestPacket /\ ~packetRequested
         /\ mac' \in Mac /\ InGap(mac') /\ ~mac'.failed
         /\ mac'.endIFG = InterframeGap
         /\ mac'.currentExpressFrame = mac.currentExpressFrame
         /\ mac'.onHold = mac.onHold /\ ~mac'.requestPacket
         /\ receivedPreemptedFrame' \in Frame
         /\ \/ /\ mac'.currentPreemptableFrame = NoFrame
               /\ deliveredPreemptable'
                    = Append(deliveredPreemptable, mac.currentPreemptableFrame)
            \/ /\ mac'.currentPreemptableFrame = mac.currentPreemptableFrame
               /\ mac'.preemptedBytesSent - mac.preemptedBytesSent >= MinNonFinal
               /\ Rest(mac') >= MinFinal
               /\ deliveredPreemptable' = deliveredPreemptable
  <1> DEFINE f == mac.currentPreemptableFrame
             sent == BytesSent(mac)
             n == [EndTxPeriod(mac) EXCEPT !.preemptedBytesSent = sent,
                     !.currentPreemptableFrame = IF sent = f.bytes THEN NoFrame ELSE f]
  <1>1. /\ mac.transmitting = "preemptable" /\ mac.endTx = 0
        /\ mac' = FailUnless(PayloadBytesSent(mac) - Checksum <= f.bytes + Preamble, n)
        /\ Receive(f, sent)
    BY DEF HandleEndTxPeriodPreemptable
  <1>2. /\ mac \in Mac /\ ~mac.failed
        /\ receivedPreemptedFrame \in Frame
    BY DEF MacInv, TypeOK
  <1>3. /\ SendsPart(mac) /\ ~packetRequested
        /\ mac.requestPacket =>
             ExpressReady /\ IsPreemptionNowPossible(mac) /\ mac.endTx # 0
    BY <1>1, <1>2, Stages DEF MacInv
  <1>4. ~mac.requestPacket
    BY <1>1, <1>3
  <1>5. f \in Frame /\ f # NoFrame /\ Rest(mac) >= 1
    BY <1>2, <1>3, Fields DEF MacInv, FramesInv, SendsPart
  <1>6. /\ PayloadBytesSent(mac) - Checksum <= f.bytes + Preamble
        /\ \/ sent = f.bytes
           \/ /\ sent < f.bytes /\ sent \in Nat
              /\ sent - mac.preemptedBytesSent >= MinNonFinal
              /\ f.bytes - sent >= MinFinal
    <2>1. CASE Uncut(mac)
      BY <1>1, <1>2, <1>3, <1>5, <2>1, FrameEnds
    <2>2. CASE \E cut \in 0 .. f.bytes : CutAfter(mac, cut)
      <3>1. PICK cut \in 0 .. f.bytes : CutAfter(mac, cut)
        BY <2>2
      <3>2. cut \in Nat /\ cut >= MinNonFinal /\ Rest(mac) - cut >= MinFinal
        BY <1>2, <3>1, Fields DEF CutAfter
      <3>3. /\ PayloadBytesSent(mac) - Checksum <= f.bytes + Preamble
            /\ sent = mac.preemptedBytesSent + cut /\ sent < f.bytes
        BY <1>1, <1>2, <1>3, <3>1, FragmentEnds
      <3>4. /\ sent \in Nat /\ sent - mac.preemptedBytesSent >= MinNonFinal
            /\ f.bytes - sent >= MinFinal
        BY <1>2, <3>2, <3>3, Fields, Sizes DEF Rest
      <3>5. QED
        BY <3>3, <3>4
    <2>3. QED
      BY <1>3, <2>1, <2>2 DEF SendsPart
  <1>7. sent \in Nat
    BY <1>2, <1>6, Fields
  <1> DEFINE k == IF sent = f.bytes THEN NoFrame ELSE f
  <1>8. k \in Frame
    BY <1>5, Frames
  <1>9. mac' = [EndTxPeriod(mac) EXCEPT !.preemptedBytesSent = sent,
                  !.currentPreemptableFrame = k, !.failed = FALSE]
    BY <1>1, <1>2, <1>6 DEF FailUnless, EndTxPeriod, Mac
  <1> HIDE DEF sent, k, n
  <1>10. mac' \in Mac
    BY <1>2, <1>7, <1>8, <1>9, Frames, NotScheduledIsNoTime, Sizes DEF EndTxPeriod, Mac
  <1>11. /\ mac'.transmitState = "WAIT_IFG" /\ mac'.transmitting = "nothing"
         /\ mac'.curTxFrame = NoFrame /\ mac'.endTx = NotScheduled
         /\ mac'.endIFG = InterframeGap /\ mac'.failed = FALSE
         /\ mac'.currentExpressFrame = mac.currentExpressFrame
         /\ mac'.currentPreemptableFrame = k /\ mac'.preemptedBytesSent = sent
         /\ mac'.onHold = mac.onHold /\ mac'.requestPacket = mac.requestPacket
         /\ mac'.recheck = mac.recheck /\ mac'.preempt = mac.preempt
    BY <1>2, <1>9 DEF EndTxPeriod, Mac
  <1>12. mac.recheck = NotScheduled /\ mac.preempt = NotScheduled
    <2>1. ASSUME NEW timer \in Timer, AwaitsCut(mac, timer), timer # NotScheduled
          PROVE  FALSE
      BY <1>1, <1>2, <1>3, <2>1, TimersComeFirst, NotScheduledIsNoTime
    <2>2. QED
      BY <1>2, <1>3, <2>1, Fields DEF SendsPart
  <1>13. InGap(mac')
    BY <1>11, <1>12, Sizes DEF InGap
  <1>14. CASE sent = f.bytes
    BY <1>1, <1>3, <1>4, <1>10, <1>11, <1>13, <1>14, Frames DEF Receive, k
  <1>15. CASE sent # f.bytes
    <2>1. Rest(mac') = f.bytes - sent
      BY <1>11, <1>15 DEF Rest, k
    <2>2. Rest(mac') >= MinFinal /\ sent - mac.preemptedBytesSent >= MinNonFinal
      BY <1>6, <1>15, <2>1
    <2>3. deliveredPreemptable' = deliveredPreemptable /\ receivedPreemptedFrame' \in Frame
      BY <1>1, <1>5, <1>15 DEF Receive
    <2>4. QED
      BY <1>3, <1>4, <1>10, <1>11, <1>13, <1>15, <2>2, <2>3 DEF k
  <1>16. QED
    BY <1>14, <1>15

LEMMA GapEnds ==
  ASSUME MacInv, HandleEndIFGPeriod
  PROVE  /\ InGap(mac) /\ ~packetRequested
         /\ mac' \in Mac /\ ~mac'.failed
         /\ mac'.onHold = mac.onHold /\ SameRest
         /\ \/ /\ mac.currentExpressFrame # NoFrame
               /\ SendsExpress(mac') /\ mac'.curTxFrame = mac.currentExpressFrame
               /\ mac'.endTx = WireTime(mac'.curTxFrame.bytes)
               /\ ~mac'.requestPacket
            \/ /\ mac.currentExpressFrame = NoFrame /\ ExpressReady
               /\ Idle(mac') /\ mac'.requestPacket
            \/ /\ mac.currentExpressFrame = NoFrame /\ ~ExpressReady
               /\ ~mac.onHold
               /\ SendsPart(mac') /\ Uncut(mac') /\ mac'.elapsed = 0
               /\ mac'.currentExpressFrame = NoFrame
               /\ mac'.recheck = NotScheduled /\ mac'.preempt = NotScheduled
               /\ ~mac'.requestPacket
            \/ /\ mac.currentExpressFrame = NoFrame /\ ~ExpressReady
               /\ mac.onHold \/ mac.currentPreemptableFrame = NoFrame
               /\ Idle(mac') /\ mac'.requestPacket
  <1> DEFINE m == [mac EXCEPT !.endIFG = NotScheduled]
  <1>1. /\ mac.endIFG = 0
        /\ mac' = BeginSendFrames(GetNextFrameFromQueue(m, packetRequested))
    BY DEF HandleEndIFGPeriod
  <1>2. mac \in Mac /\ ~mac.failed /\ packetRequested \in BOOLEAN
    BY DEF MacInv, TypeOK
  <1>3. InGap(mac) /\ ~mac.requestPacket /\ ~packetRequested
    BY <1>1, <1>2, Stages, NotScheduledIsNoTime DEF MacInv
  <1>4. /\ m \in Mac /\ m.failed = mac.failed /\ m.endIFG = NotScheduled
        /\ m.curTxFrame = mac.curTxFrame /\ m.transmitting = mac.transmitting
        /\ m.endTx = mac.endTx /\ m.recheck = mac.recheck /\ m.preempt = mac.preempt
        /\ m.currentExpressFrame = mac.currentExpressFrame
        /\ m.currentPreemptableFrame = mac.currentPreemptableFrame
        /\ m.preemptedBytesSent = mac.preemptedBytesSent
        /\ m.onHold = mac.onHold /\ m.requestPacket = mac.requestPacket
    BY <1>2, NotScheduledIsNoTime DEF Mac
  <1> HIDE DEF m
  <1>5. /\ m.currentExpressFrame \in ExpressFrames \cup {NoFrame}
        /\ m.currentPreemptableFrame \in PreemptableFrames \cup {NoFrame}
        /\ m.currentPreemptableFrame # NoFrame => Rest(m) >= 1
    BY <1>4 DEF MacInv, FramesInv, Rest
  <1>6. /\ ~m.failed /\ m.curTxFrame = NoFrame /\ m.transmitting = "nothing"
        /\ m.endTx = NotScheduled
        /\ m.recheck = NotScheduled /\ m.preempt = NotScheduled
    BY <1>2, <1>3, <1>4 DEF InGap
  <1>7. QED
    BY <1>1, <1>2, <1>3, <1>4, <1>5, <1>6, NextFrame DEF SameRest

LEMMA RecheckIsDue ==
  ASSUME MacInv, Recheck
  PROVE  /\ SendsPart(mac) /\ ~packetRequested /\ mac.endTx # 0
         /\ IsPreemptionNowPossible(mac)
         /\ mac.elapsed < (MinNonFinal + 1) * ByteTime
         /\ mac' = [mac EXCEPT !.recheck = NotScheduled,
                               !.requestPacket = mac.requestPacket \/ ExpressReady]
         /\ mac' \in Mac
  <1>1. mac \in Mac /\ ~mac.failed /\ mac.recheck = 0
    BY DEF MacInv, TypeOK, Recheck
  <1>2. SendsPart(mac) /\ ~packetRequested
    <2>1. SendsPart(mac)
      BY <1>1, Stages, NotScheduledIsNoTime DEF MacInv
    <2>2. QED
      BY <1>1, <2>1, Stages DEF MacInv, SendsPart
  <1>3. /\ MinNonFinal * ByteTime <= mac.elapsed
        /\ mac.elapsed < (MinNonFinal + 1) * ByteTime
        /\ Rest(mac) - MinNonFinal >= MinFinal
    <2>1. /\ MinNonFinal * ByteTime <= mac.elapsed
          /\ mac.elapsed < (MinNonFinal + 1) * ByteTime
          /\ Rest(mac) >= MinNonFinal + Checksum + MinFinal
      BY <1>1, <1>2, Fields, NotScheduledIsNoTime DEF SendsPart, AwaitsCut
    <2>2. QED
      BY <1>1, <2>1, Fields, Sizes
  <1>4. PayloadBytesSent(mac) = MinNonFinal
    BY <1>1, <1>3, CutIsDue, Fields DEF PayloadBytesSent
  <1>5. IsPreemptionNowPossible(mac)
    BY <1>1, <1>2, <1>3, <1>4, NowPossible, Sizes DEF SendsPart
  <1>6. mac.endTx # 0
    BY <1>1, <1>2, TimersComeFirst, Fields DEF SendsPart
  <1>7. RequestsExpressFrame(mac) <=> ExpressReady
    BY <1>2 DEF RequestsExpressFrame, SendsPart
  <1>8. mac' = [mac EXCEPT !.recheck = NotScheduled,
                           !.requestPacket = mac.requestPacket \/ ExpressReady]
    BY <1>1, <1>5, <1>7, Fields DEF Recheck, FailUnless, Mac
  <1>9. mac' \in Mac
    <2>1. (mac.requestPacket \/ ExpressReady) \in BOOLEAN
      OBVIOUS
    <2>2. QED
      BY <1>1, <1>8, <2>1, NotScheduledIsNoTime DEF Mac
  <1>10. QED
    BY <1>2, <1>3, <1>5, <1>6, <1>8, <1>9

LEMMA PreemptionIsDue ==
  ASSUME MacInv, PreemptCurrentFrameDue
  PROVE  /\ SendsPart(mac) /\ ~packetRequested
         /\ mac.elapsed < (MinNonFinal + 1) * ByteTime
         /\ mac' \in Mac /\ ~mac'.failed /\ SendsPart(mac') /\ SameRest
         /\ IsPreemptionNowPossible(mac')
         /\ mac'.endTx = Checksum * ByteTime
         /\ mac'.elapsed = mac.elapsed /\ mac'.recheck = mac.recheck
         /\ mac'.currentExpressFrame = mac.currentExpressFrame
         /\ mac'.onHold = mac.onHold /\ mac'.requestPacket = mac.requestPacket
  <1> DEFINE m == [mac EXCEPT !.preempt = NotScheduled]
  <1>1. mac \in Mac /\ ~mac.failed /\ mac.preempt = 0
    BY DEF MacInv, TypeOK, PreemptCurrentFrameDue
  <1>2. SendsPart(mac) /\ ~packetRequested
    <2>1. SendsPart(mac)
      BY <1>1, Stages, NotScheduledIsNoTime DEF MacInv
    <2>2. QED
      BY <1>1, <2>1, Stages DEF MacInv, SendsPart
  <1>3. /\ MinNonFinal * ByteTime <= mac.elapsed
        /\ mac.elapsed < (MinNonFinal + 1) * ByteTime
        /\ Rest(mac) - MinNonFinal >= MinFinal
    <2>1. /\ MinNonFinal * ByteTime <= mac.elapsed
          /\ mac.elapsed < (MinNonFinal + 1) * ByteTime
          /\ Rest(mac) >= MinNonFinal + Checksum + MinFinal
      BY <1>1, <1>2, Fields, NotScheduledIsNoTime DEF SendsPart, AwaitsCut
    <2>2. QED
      BY <1>1, <2>1, Fields, Sizes
  <1>4. PayloadBytesSent(mac) = MinNonFinal
    BY <1>1, <1>3, CutIsDue, Fields DEF PayloadBytesSent
  <1>5. IsPreemptionNowPossible(mac)
    BY <1>1, <1>2, <1>3, <1>4, NowPossible, Sizes DEF SendsPart
  <1>6. /\ m.transmitState = mac.transmitState /\ m.transmitting = mac.transmitting
        /\ m.curTxFrame = mac.curTxFrame
        /\ m.currentExpressFrame = mac.currentExpressFrame
        /\ m.currentPreemptableFrame = mac.currentPreemptableFrame
        /\ m.preemptedBytesSent = mac.preemptedBytesSent
        /\ m.elapsed = mac.elapsed /\ m.endTx = mac.endTx /\ m.endIFG = mac.endIFG
        /\ m.recheck = mac.recheck /\ m.preempt = NotScheduled
        /\ m.onHold = mac.onHold /\ m.requestPacket = mac.requestPacket
        /\ m.failed = mac.failed
    BY <1>1 DEF Mac
  <1>7. m \in Mac
    BY <1>1, NotScheduledIsNoTime DEF Mac
  <1>8. mac' = PreemptCurrentFrame(m)
    BY DEF PreemptCurrentFrameDue
  <1> HIDE DEF m
  <1>9. SendsPart(m) /\ IsPreemptionNowPossible(m)
    BY <1>1, <1>2, <1>5, <1>6, <1>7, SamePart
  <1>10. /\ mac' = [m EXCEPT !.endTx = Checksum * ByteTime]
         /\ mac' \in Mac /\ ~mac'.failed /\ SendsPart(mac')
         /\ IsPreemptionNowPossible(mac')
    BY <1>1, <1>6, <1>7, <1>8, <1>9, PartIsCut
  <1>11. QED
    BY <1>2, <1>3, <1>6, <1>7, <1>10 DEF Mac, SameRest

LEMMA HoldBegins ==
  ASSUME MacInv, HoldRequest
  PROVE  /\ enableHoldAndRelease /\ ~expressWindow /\ untilTick = HoldAdvance
         /\ ~ExpressReady
         /\ mac' \in Mac /\ ~mac'.failed /\ mac'.onHold /\ SameRest
         /\ mac'.requestPacket = mac.requestPacket
         /\ mac'.currentExpressFrame = mac.currentExpressFrame
         /\ \/ /\ SendsPart(mac) /\ ~packetRequested /\ ~mac.requestPacket
               /\ SendsPart(mac') /\ mac'.elapsed = mac.elapsed
            \/ Idle(mac) /\ Idle(mac')
            \/ InGap(mac) /\ InGap(mac') /\ mac'.endIFG = mac.endIFG
            \/ /\ SendsExpress(mac) /\ SendsExpress(mac')
               /\ mac'.curTxFrame = mac.curTxFrame /\ mac'.endTx = mac.endTx
  <1> DEFINE held == [mac EXCEPT !.onHold = TRUE]
  <1>1. /\ mac \in Mac /\ ~mac.failed /\ holdRequest = 0
        /\ mac' = Hold(mac, packetRequested)
        /\ packetRequested \in BOOLEAN
    BY DEF MacInv, TypeOK, HoldRequest
  <1>2. enableHoldAndRelease /\ ~expressWindow /\ untilTick = HoldAdvance
    BY <1>1, Windows, NotScheduledIsNoTime DEF MacInv, GatesInv
  <1>3. ~ExpressReady
    BY <1>2 DEF ExpressReady
  <1>4. /\ held.transmitState = mac.transmitState /\ held.transmitting = mac.transmitting
        /\ held.curTxFrame = mac.curTxFrame
        /\ held.currentExpressFrame = mac.currentExpressFrame
        /\ held.currentPreemptableFrame = mac.currentPreemptableFrame
        /\ held.preemptedBytesSent = mac.preemptedBytesSent
        /\ held.elapsed = mac.elapsed /\ held.endTx = mac.endTx /\ held.endIFG = mac.endIFG
        /\ held.recheck = mac.recheck /\ held.preempt = mac.preempt
        /\ held.onHold /\ held.requestPacket = mac.requestPacket
        /\ held.failed = mac.failed
    BY <1>1 DEF Mac
  <1>5. held \in Mac
    BY <1>1 DEF Mac
  <1>6. CASE SendsPart(mac)
    <2>1. ~mac.requestPacket /\ ~packetRequested /\ mac.transmitting = "preemptable"
      BY <1>1, <1>3, <1>6, Stages DEF MacInv, SendsPart
    <2>2. CASE IsPreemptionNowPossible(mac)
      <3>1. mac' = PreemptCurrentFrame(held)
        BY <1>1, <2>1, <2>2 DEF Hold
      <3> HIDE DEF held
      <3>2. SendsPart(held) /\ IsPreemptionNowPossible(held)
        BY <1>1, <1>4, <1>5, <1>6, <2>2, SamePart
      <3>3. /\ mac' = [held EXCEPT !.endTx = Checksum * ByteTime]
            /\ mac' \in Mac /\ ~mac'.failed /\ SendsPart(mac')
        BY <1>1, <1>4, <1>5, <3>1, <3>2, PartIsCut
      <3>4. QED
        BY <1>2, <1>3, <1>4, <1>5, <1>6, <2>1, <3>3 DEF Mac, SameRest
    <2>3. CASE ~IsPreemptionNowPossible(mac) /\ IsPreemptionLaterPossible(mac)
      <3> DEFINE wait == TimeToPreemption(mac)
                 n == [held EXCEPT !.preempt = wait]
      <3>1. mac' = n
        BY <1>1, <2>1, <2>3 DEF Hold
      <3>2. /\ wait \in Nat
            /\ MinNonFinal * ByteTime <= mac.elapsed + wait
            /\ mac.elapsed + wait < (MinNonFinal + 1) * ByteTime
        BY <1>1, <2>3, CutsLater, Fields
           DEF TimeToPreemption, PayloadBytesSent, IsPreemptionLaterPossible
      <3>3. Rest(mac) >= MinNonFinal + Checksum + MinFinal
        BY <1>1, <2>3, Fields, Sizes DEF IsPreemptionLaterPossible
      <3> HIDE DEF wait, held
      <3>4. /\ n.transmitState = held.transmitState /\ n.transmitting = held.transmitting
            /\ n.curTxFrame = held.curTxFrame
            /\ n.currentExpressFrame = held.currentExpressFrame
            /\ n.currentPreemptableFrame = held.currentPreemptableFrame
            /\ n.preemptedBytesSent = held.preemptedBytesSent
            /\ n.elapsed = held.elapsed /\ n.endTx = held.endTx /\ n.endIFG = held.endIFG
            /\ n.recheck = held.recheck /\ n.preempt = wait
            /\ n.onHold = held.onHold /\ n.requestPacket = held.requestPacket
            /\ n.failed = held.failed
        BY <1>5 DEF Mac
      <3>5. n \in Mac
        BY <1>5, <3>2, NotScheduledIsNoTime DEF Mac
      <3> HIDE DEF n
      <3>6. AwaitsCut(n, n.preempt)
        BY <1>4, <3>2, <3>3, <3>4 DEF AwaitsCut, Rest
      <3>7. SendsPart(n)
        BY <1>1, <1>4, <1>6, <3>4, <3>5, <3>6, SamePart
      <3>8. QED
        BY <1>1, <1>2, <1>3, <1>4, <1>6, <2>1, <3>1, <3>4, <3>5, <3>7 DEF SameRest
    <2>4. CASE ~IsPreemptionNowPossible(mac) /\ ~IsPreemptionLaterPossible(mac)
      <3>1. mac' = held
        BY <1>1, <2>1, <2>4 DEF Hold
      <3> HIDE DEF held
      <3>2. SendsPart(held)
        BY <1>1, <1>4, <1>5, <1>6, SamePart
      <3>3. QED
        BY <1>1, <1>2, <1>3, <1>4, <1>5, <1>6, <2>1, <3>1, <3>2 DEF SameRest
    <2>5. QED
      BY <2>2, <2>3, <2>4
  <1>7. CASE Idle(mac)
    <2>1. mac.requestPacket <=> ~packetRequested
      BY <1>1, <1>7, Stages DEF MacInv, Idle
    <2>2. mac' = GetNextFrameFromQueue(held, packetRequested)
      BY <1>1, <1>7 DEF Hold, Idle
    <2>3. GetNextFrameFromQueue(held, packetRequested)
            = FailUnless(held.curTxFrame = NoFrame,
                [held EXCEPT !.requestPacket = @ \/ ~packetRequested])
      BY <1>3, <1>4, <1>7 DEF GetNextFrameFromQueue, RequestsExpressFrame, Idle
    <2>4. mac' = [held EXCEPT !.requestPacket = mac.requestPacket, !.failed = FALSE]
      BY <1>1, <1>4, <1>5, <1>7, <2>1, <2>2, <2>3, Fields DEF FailUnless, Idle, Mac
    <2> HIDE DEF held
    <2>5. mac' \in Mac /\ ~mac'.failed
      BY <1>1, <1>5, <2>4, Fields DEF Mac
    <2>6. Idle(mac') /\ mac'.requestPacket = mac.requestPacket /\ mac'.onHold
      BY <1>4, <1>5, <1>7, <2>4 DEF Mac, Idle
    <2>7. SameRest /\ mac'.currentExpressFrame = mac.currentExpressFrame
      BY <1>4, <1>5, <2>4 DEF Mac, SameRest
    <2>8. QED
      BY <1>2, <1>3, <1>7, <2>5, <2>6, <2>7
  <1>8. CASE InGap(mac) \/ SendsExpress(mac)
    <2>1. mac' = held
      BY <1>1, <1>8 DEF Hold, InGap, SendsExpress
    <2> HIDE DEF held
    <2>2. (InGap(mac) /\ InGap(held)) \/ (SendsExpress(mac) /\ SendsExpress(held))
      BY <1>4, <1>8 DEF InGap, SendsExpress
    <2>3. QED
      BY <1>1, <1>2, <1>3, <1>4, <1>5, <2>1, <2>2 DEF SameRest
  <1>9. QED
    BY <1>6, <1>7, <1>8 DEF MacInv, StageInv

LEMMA ReleaseFinds ==
  ASSUME MacInv, TickClosesExpress
  PROVE  /\ mac.onHold /\ ~mac.requestPacket /\ ~SendsPart(mac) /\ ~ExpressReady
         /\ mac' \in Mac /\ ~mac'.failed /\ ~mac'.onHold /\ SameRest
         /\ mac'.currentExpressFrame = mac.currentExpressFrame
         /\ \/ /\ SendsExpress(mac) /\ SendsExpress(mac') /\ ~mac'.requestPacket
               /\ mac'.curTxFrame = mac.curTxFrame /\ mac'.endTx = mac.endTx
            \/ /\ InGap(mac) /\ InGap(mac') /\ ~mac'.requestPacket
               /\ mac'.endIFG = mac.endIFG
            \/ /\ Idle(mac) /\ ~mac'.requestPacket
               /\ SendsPart(mac') /\ Uncut(mac') /\ mac'.elapsed = 0
               /\ mac'.recheck = NotScheduled /\ mac'.preempt = NotScheduled
            \/ /\ Idle(mac) /\ mac.currentPreemptableFrame = NoFrame
               /\ Idle(mac') /\ mac'.requestPacket
  <1> DEFINE m == [mac EXCEPT !.onHold = FALSE]
  <1>1. /\ mac \in Mac /\ ~mac.failed
        /\ enableHoldAndRelease /\ expressWindow /\ untilTick = 0
    BY DEF MacInv, TypeOK, TickClosesExpress
  <1>2. mac.onHold /\ ~mac.requestPacket
    BY <1>1 DEF MacInv, GatesInv
  <1>3. ~SendsPart(mac)
    <2>1. SUFFICES ASSUME SendsPart(mac)
                   PROVE  FALSE
      OBVIOUS
    <2>2. WireTime(Rest(mac)) - mac.elapsed < 0
      BY <1>1, <1>2, <2>1 DEF MacInv, HoldInv, UntilRelease, SendsPart
    <2>3. /\ mac.elapsed + mac.endTx <= WireTime(Rest(mac)) /\ mac.endTx \in Nat
          /\ WireTime(Rest(mac)) \in Int /\ mac.elapsed \in Nat
      BY <1>1, <2>1, Fields, WireTimes DEF SendsPart, PartEnd
    <2>4. QED
      BY <2>2, <2>3
  <1>4. ~ExpressReady
    BY <1>1, NothingFitsBeforeTick DEF MacInv
  <1>5. mac' = Release(mac)
    BY <1>2 DEF TickClosesExpress
  <1>6. /\ m.transmitState = mac.transmitState /\ m.transmitting = mac.transmitting
        /\ m.curTxFrame = mac.curTxFrame
        /\ m.currentExpressFrame = mac.currentExpressFrame
        /\ m.currentPreemptableFrame = mac.currentPreemptableFrame
        /\ m.preemptedBytesSent = mac.preemptedBytesSent
        /\ m.elapsed = mac.elapsed /\ m.endTx = mac.endTx /\ m.endIFG = mac.endIFG
        /\ m.recheck = mac.recheck /\ m.preempt = mac.preempt
        /\ ~m.onHold /\ m.requestPacket = mac.requestPacket
        /\ m.failed = mac.failed
    BY <1>1 DEF Mac
  <1>7. m \in Mac
    BY <1>1 DEF Mac
  <1>8. CASE SendsExpress(mac) \/ InGap(mac)
    <2>1. mac' = m
      BY <1>5, <1>8, NotScheduledIsNoTime DEF Release, SendsExpress, InGap
    <2> HIDE DEF m
    <2>2. QED
      BY <1>1, <1>2, <1>3, <1>4, <1>6, <1>7, <1>8, <2>1 DEF SendsExpress, InGap, SameRest
  <1>9. CASE Idle(mac)
    <2>1. mac' = BeginSendFrames(GetNextFrameFromQueue(m, FALSE))
      BY <1>5, <1>9 DEF Release, Idle
    <2> HIDE DEF m
    <2>2. /\ m.currentExpressFrame = NoFrame
          /\ m.currentPreemptableFrame \in PreemptableFrames \cup {NoFrame}
          /\ m.currentPreemptableFrame # NoFrame => Rest(m) >= 1
          /\ m.curTxFrame = NoFrame /\ m.transmitting = "nothing"
          /\ m.endTx = NotScheduled /\ m.endIFG = NotScheduled
          /\ m.recheck = NotScheduled /\ m.preempt = NotScheduled
      BY <1>6, <1>9 DEF MacInv, FramesInv, Rest, Idle
    <2>3. /\ mac' \in Mac /\ ~mac'.failed
          /\ mac'.onHold = m.onHold
          /\ mac'.currentPreemptableFrame = m.currentPreemptableFrame
          /\ mac'.preemptedBytesSent = m.preemptedBytesSent
          /\ \/ /\ SendsPart(mac') /\ Uncut(mac') /\ mac'.elapsed = 0
                /\ mac'.currentExpressFrame = NoFrame
                /\ mac'.recheck = NotScheduled /\ mac'.preempt = NotScheduled
                /\ mac'.requestPacket = m.requestPacket
             \/ /\ m.currentPreemptableFrame = NoFrame
                /\ Idle(mac') /\ mac'.requestPacket
      BY <1>1, <1>4, <1>6, <1>7, <2>1, <2>2, NextFrame
    <2>4. mac.currentExpressFrame = NoFrame
      BY <1>9 DEF Idle
    <2>5. QED
      BY <1>2, <1>3, <1>4, <1>6, <1>9, <2>3, <2>4 DEF SameRest, Idle
  <1>10. QED
    BY <1>3, <1>8, <1>9 DEF MacInv, StageInv

\* The transmission selection hands a packet to a MAC that has asked for one.
LEMMA PacketSelected ==
  ASSUME MacInv, NEW m \in Mac, ~m.failed, ~m.requestPacket,
         \/ /\ Idle(m)
            /\ ~ExpressReady /\ ~m.onHold => m.currentPreemptableFrame = NoFrame
         \/ SendsPart(m) /\ IsPreemptionNowPossible(m) /\ ExpressReady,
         SelectPacket(m)
  PROVE  /\ mac' \in Mac /\ ~mac'.failed /\ ~mac'.requestPacket
         /\ mac'.onHold = m.onHold
         /\ \/ /\ ExpressReady /\ expressQueue # <<>>
               /\ expressQueue' = Tail(expressQueue) /\ preemptableQueue' = preemptableQueue
               /\ mac'.currentPreemptableFrame = m.currentPreemptableFrame
               /\ mac'.preemptedBytesSent = m.preemptedBytesSent
               /\ \/ /\ Idle(m) /\ SendsExpress(mac')
                     /\ mac'.curTxFrame \in ExpressFrames
                     /\ mac'.endTx = WireTime(mac'.curTxFrame.bytes)
                     /\ expressWait' = expressWait
                  \/ /\ SendsPart(m) /\ SendsPart(mac')
                     /\ mac'.endTx = Checksum * ByteTime
                     /\ mac'.elapsed = m.elapsed
                     /\ mac'.currentExpressFrame \in ExpressFrames
                     /\ expressWait' = IF m.currentExpressFrame = NoFrame
                                         THEN expressWait ELSE 0
            \/ /\ ~ExpressReady /\ ~m.onHold /\ Idle(m)
               /\ m.currentPreemptableFrame = NoFrame
               /\ preemptableQueue # <<>>
               /\ preemptableQueue' = Tail(preemptableQueue) /\ expressQueue' = expressQueue
               /\ SendsPart(mac') /\ Uncut(mac') /\ mac'.elapsed = 0 /\ Rest(mac') >= 1
               /\ mac'.currentExpressFrame = NoFrame
               /\ mac'.currentPreemptableFrame = Head(preemptableQueue)
               /\ mac'.recheck = NotScheduled /\ mac'.preempt = NotScheduled
               /\ expressWait' = expressWait
  <1>1. /\ expressQueue \in Seq(ExpressFrames)
        /\ preemptableQueue \in Seq(PreemptableFrames)
    BY DEF MacInv, FramesInv
  <1>2. CASE ExpressReady
    <2>1. /\ expressQueue # <<>> /\ expressQueue' = Tail(expressQueue)
          /\ mac' = HandleUpperPacket(m, Head(expressQueue))
          /\ preemptableQueue' = preemptableQueue
          /\ expressWait' = IF m.currentExpressFrame = NoFrame THEN expressWait ELSE 0
      BY <1>2 DEF SelectPacket, ExpressReady
    <2>2. Head(expressQueue) \in ExpressFrames
      BY <1>1, <2>1
    <2>3. CASE Idle(m)
      <3>1. m.currentExpressFrame = NoFrame
        BY <2>3 DEF Idle
      <3>2. QED
        BY <1>2, <2>1, <2>2, <2>3, <3>1, ExpressComes
    <2>4. CASE SendsPart(m) /\ IsPreemptionNowPossible(m)
      BY <1>2, <2>1, <2>2, <2>4, ExpressCuts
    <2>5. QED
      BY <2>3, <2>4
  <1>3. CASE ~ExpressReady
    <2>1. /\ preemptableQueue # <<>> /\ ~m.onHold
          /\ preemptableQueue' = Tail(preemptableQueue)
          /\ mac' = HandleUpperPacket(m, Head(preemptableQueue))
          /\ expressQueue' = expressQueue /\ expressWait' = expressWait
      BY <1>3 DEF SelectPacket, PreemptableReady
    <2>2. Head(preemptableQueue) \in PreemptableFrames
      BY <1>1, <2>1
    <2>3. Idle(m) /\ m.currentPreemptableFrame = NoFrame
      BY <1>3, <2>1
    <2>4. QED
      BY <1>3, <2>1, <2>2, <2>3, PreemptableComes
  <1>4. QED
    BY <1>2, <1>3

\* The transmission selection tells the MAC of a packet that it has not asked for.
LEMMA MacIsTold ==
  ASSUME MacInv, ~packetRequested, mac' = PacketEnqueued(mac)
  PROVE  \/ mac' = mac /\ ~(mac.transmitting = "preemptable" /\ ExpressReady)
         \/ /\ SendsPart(mac) /\ ExpressReady /\ ~IsPreemptionNowPossible(mac)
            /\ ~IsPreemptionLaterPossible(mac) /\ mac' = mac
         \/ /\ SendsPart(mac) /\ ExpressReady /\ IsPreemptionNowPossible(mac)
            /\ mac' = [mac EXCEPT !.requestPacket = TRUE] /\ mac' \in Mac
         \/ /\ SendsPart(mac) /\ ExpressReady /\ ~IsPreemptionNowPossible(mac)
            /\ mac' \in Mac /\ SendsPart(mac') /\ mac'.recheck \in Nat
            /\ mac' = [mac EXCEPT !.recheck = mac'.recheck]
  <1>1. mac \in Mac /\ ~mac.failed
    BY DEF MacInv, TypeOK
  <1>2. CASE mac.transmitting # "preemptable" \/ ~ExpressReady
    BY <1>2 DEF PacketEnqueued
  <1>3. CASE mac.transmitting = "preemptable" /\ ExpressReady
    <2>1. SendsPart(mac)
      BY <1>1, <1>3, Stages DEF MacInv
    <2>2. CASE IsPreemptionNowPossible(mac)
      BY <1>1, <1>3, <2>1, <2>2 DEF PacketEnqueued, Mac
    <2>3. CASE ~IsPreemptionNowPossible(mac) /\ ~IsPreemptionLaterPossible(mac)
      BY <1>3, <2>1, <2>3 DEF PacketEnqueued
    <2>4. CASE ~IsPreemptionNowPossible(mac) /\ IsPreemptionLaterPossible(mac)
      <3> DEFINE wait == TimeToPreemption(mac)
                 n == [mac EXCEPT !.recheck = wait]
      <3>1. mac' = n
        BY <1>3, <2>4 DEF PacketEnqueued
      <3>2. /\ wait \in Nat
            /\ MinNonFinal * ByteTime <= mac.elapsed + wait
            /\ mac.elapsed + wait < (MinNonFinal + 1) * ByteTime
        BY <1>1, <2>4, CutsLater, Fields
           DEF TimeToPreemption, PayloadBytesSent, IsPreemptionLaterPossible
      <3>3. Rest(mac) >= MinNonFinal + Checksum + MinFinal
        BY <1>1, <2>4, Fields, Sizes DEF IsPreemptionLaterPossible
      <3> HIDE DEF wait
      <3>4. /\ n.transmitState = mac.transmitState /\ n.transmitting = mac.transmitting
            /\ n.curTxFrame = mac.curTxFrame
            /\ n.currentPreemptableFrame = mac.currentPreemptableFrame
            /\ n.preemptedBytesSent = mac.preemptedBytesSent
            /\ n.elapsed = mac.elapsed /\ n.endTx = mac.endTx /\ n.endIFG = mac.endIFG
            /\ n.recheck = wait /\ n.preempt = mac.preempt
        BY <1>1 DEF Mac
      <3>5. n \in Mac
        BY <1>1, <3>2, NotScheduledIsNoTime DEF Mac
      <3>6. AwaitsCut(n, n.recheck)
        BY <3>2, <3>3, <3>4 DEF AwaitsCut, Rest
      <3>7. SendsPart(n)
        BY <1>1, <2>1, <3>4, <3>5, <3>6, SamePart
      <3>8. QED
        BY <1>3, <2>1, <2>4, <3>1, <3>2, <3>4, <3>5, <3>7
    <2>5. QED
      BY <2>2, <2>3, <2>4
  <1>4. QED
    BY <1>2, <1>3

(***************************************************************************)
(* MacInv is inductive: one lemma per action                               *)
(***************************************************************************)
LEMMA ReadyStays ==
  ASSUME UNCHANGED <<expressQueue, enableHoldAndRelease, expressWindow, untilTick>>
  PROVE  ExpressReady' <=> ExpressReady
  BY DEF ExpressReady

\* Steps that leave queues and the kept frame alone.
LEMMA FramesStay ==
  ASSUME FramesInv, NumbersInv,
         UNCHANGED <<queueVars, preemptableCount, deliveredPreemptable>>, SameRest,
         mac'.currentExpressFrame \in ExpressFrames \cup {NoFrame},
         mac'.transmitting = "express" => mac'.curTxFrame \in ExpressFrames
  PROVE  FramesInv' /\ NumbersInv'
  <1>1. FramesInv'
    BY DEF FramesInv, SameRest, Rest, queueVars
  <1>2. NumbersInv'
    BY DEF NumbersInv, PreemptableIsComplete, SameRest, queueVars
  <1>3. QED
    BY <1>1, <1>2

LEMMA InitMac == Init => MacInv
  <1> SUFFICES ASSUME Init
               PROVE  MacInv
    OBVIOUS
  <1>1. /\ mac.transmitState = "TX_IDLE" /\ mac.transmitting = "nothing"
        /\ mac.curTxFrame = NoFrame /\ mac.currentExpressFrame = NoFrame
        /\ mac.currentPreemptableFrame = NoFrame
        /\ mac.endTx = NotScheduled /\ mac.endIFG = NotScheduled
        /\ mac.recheck = NotScheduled /\ mac.preempt = NotScheduled
        /\ ~mac.onHold /\ mac.requestPacket /\ ~mac.failed
    BY DEF Init
  <1>2. mac \in Mac
    BY Frames, NotScheduledIsNoTime DEF Init, Mac
  <1>3. enableHoldAndRelease \in HoldAndRelease /\ enableHoldAndRelease \in BOOLEAN
    BY Windows DEF Init
  <1>4. holdRequest \in Timer /\ (enableHoldAndRelease => holdRequest \in Nat)
    BY <1>3, Windows, NotScheduledIsNoTime DEF Init
  <1>5. TypeOK
    <2>1. /\ expressQueue \in Seq(Frame) /\ preemptableQueue \in Seq(Frame)
          /\ deliveredPreemptable \in Seq(Frame) /\ deliveredExpress \in Seq(Frame)
          /\ receivedPreemptedFrame \in Frame
      BY Frames DEF Init
    <2>2. {selectionPacketEnqueued, packetRequested, expressWindow,
           enableHoldAndRelease} \subseteq BOOLEAN
      BY <1>3 DEF Init
    <2>3. /\ untilTick \in Nat
          /\ expressCount \in 0 .. MaxExpress /\ preemptableCount \in 0 .. MaxPreemptable
          /\ expressWait \in Nat
      BY Windows, Sizes DEF Init
    <2>4. QED
      BY <1>2, <1>4, <2>1, <2>2, <2>3 DEF TypeOK
  <1>6. StageInv
    BY <1>1 DEF StageInv, Idle, Init
  <1>7. GatesInv
    <2>1. CASE enableHoldAndRelease
      <3>1. ~expressWindow /\ untilTick = PreemptableWindow
            /\ holdRequest = PreemptableWindow - HoldAdvance
        BY <2>1 DEF Init
      <3>2. untilTick = holdRequest + HoldAdvance /\ untilTick # 0
        BY <3>1, Windows, Sizes
      <3>3. holdRequest # NotScheduled
        BY <1>4, <2>1, NotScheduledIsNoTime
      <3>4. QED
        BY <1>1, <1>3, <2>1, <3>1, <3>2, <3>3 DEF GatesInv
    <2>2. CASE ~enableHoldAndRelease
      BY <1>1, <1>3, <2>2 DEF Init, GatesInv
    <2>3. QED
      BY <2>1, <2>2
  <1>8. HoldInv /\ KeptInv
    BY <1>1 DEF HoldInv, KeptInv
  <1>9. FramesInv
    BY <1>1 DEF FramesInv, Init
  <1>10. NumbersInv
    BY <1>1 DEF NumbersInv, PreemptableIsComplete, Init
  <1>11. NotifiedInv
    BY DEF NotifiedInv, Init
  <1>12. QED
    BY <1>1, <1>5, <1>6, <1>7, <1>8, <1>9, <1>10, <1>11 DEF MacInv

LEMMA ExpressEndsInv ==
  ASSUME MacInv, HandleEndTxPeriodExpress
  PROVE  MacInv'
  <1>1. /\ SendsExpress(mac)
        /\ mac' \in Mac /\ InGap(mac') /\ ~mac'.failed
        /\ mac'.currentExpressFrame = NoFrame /\ SameRest
        /\ mac'.onHold = mac.onHold /\ ~mac'.requestPacket
    BY ExpressEnds
  <1>2. /\ UNCHANGED <<queueVars, selectionVars, gateVars, receivedPreemptedFrame,
                       deliveredPreemptable, countVars, expressWait>>
        /\ deliveredExpress' = Append(deliveredExpress, mac.curTxFrame)
    BY DEF HandleEndTxPeriodExpress
  <1>3. ~packetRequested /\ ~mac.requestPacket
    BY <1>1, Stages DEF MacInv, TypeOK, SendsExpress
  <1>4. TypeOK'
    <2>1. deliveredExpress' \in Seq(Frame)
      BY <1>2, Fields DEF MacInv, TypeOK
    <2>2. QED
      BY <1>1, <1>2, <2>1
         DEF MacInv, TypeOK, queueVars, selectionVars, gateVars, countVars
  <1>5. StageInv'
    BY <1>1, <1>2, <1>3 DEF StageInv, selectionVars
  <1>6. GatesInv'
    BY <1>1, <1>2 DEF MacInv, GatesInv, gateVars
  <1>7. HoldInv' /\ KeptInv'
    BY <1>1 DEF HoldInv, KeptInv, InGap
  <1>8. FramesInv' /\ NumbersInv'
    BY <1>1, <1>2, FramesStay DEF MacInv, InGap, countVars
  <1>9. NotifiedInv'
    BY <1>2, <1>3 DEF NotifiedInv, selectionVars
  <1>10. QED
    BY <1>1, <1>4, <1>5, <1>6, <1>7, <1>8, <1>9 DEF MacInv

LEMMA PartEndsInv ==
  ASSUME MacInv, HandleEndTxPeriodPreemptable
  PROVE  MacInv'
  <1>1. /\ SendsPart(mac) /\ ~mac.requestPacket /\ ~packetRequested
        /\ mac' \in Mac /\ InGap(mac') /\ ~mac'.failed
        /\ mac'.currentExpressFrame = mac.currentExpressFrame
        /\ mac'.onHold = mac.onHold /\ ~mac'.requestPacket
        /\ receivedPreemptedFrame' \in Frame
    BY PartEnds
  <1>2. \/ /\ mac'.currentPreemptableFrame = NoFrame
           /\ deliveredPreemptable'
                = Append(deliveredPreemptable, mac.currentPreemptableFrame)
        \/ /\ mac'.currentPreemptableFrame = mac.currentPreemptableFrame
           /\ Rest(mac') >= MinFinal
           /\ deliveredPreemptable' = deliveredPreemptable
    BY PartEnds
  <1>3. UNCHANGED <<queueVars, selectionVars, gateVars, deliveredExpress,
                    countVars, expressWait>>
    BY DEF HandleEndTxPeriodPreemptable
  <1>4. TypeOK'
    <2>1. deliveredPreemptable' \in Seq(Frame)
      <3>1. deliveredPreemptable \in Seq(Frame) /\ mac.currentPreemptableFrame \in Frame
        BY Fields DEF MacInv, TypeOK
      <3>2. QED
        BY <1>2, <3>1
    <2>2. QED
      BY <1>1, <1>3, <2>1
         DEF MacInv, TypeOK, queueVars, selectionVars, gateVars, countVars
  <1>5. StageInv'
    BY <1>1, <1>3 DEF StageInv, selectionVars
  <1>6. GatesInv'
    BY <1>1, <1>3 DEF MacInv, GatesInv, gateVars
  <1>7. HoldInv' /\ KeptInv'
    BY <1>1 DEF HoldInv, KeptInv, InGap
  <1>8. FramesInv'
    <2>1. Rest(mac') \in Int
      BY <1>1, Fields
    <2>2. mac'.currentPreemptableFrame # NoFrame => Rest(mac') >= 1
      BY <1>2, <2>1, Sizes
    <2>3. QED
      BY <1>1, <1>2, <1>3, <2>2 DEF MacInv, FramesInv, InGap, queueVars
  <1>9. NumbersInv'
    <2>1. /\ deliveredPreemptable \in Seq(Frame) /\ preemptableQueue \in Seq(Frame)
          /\ mac.currentPreemptableFrame \in Frame
          /\ mac.currentPreemptableFrame # NoFrame
          /\ preemptableCount \in Nat
      BY <1>1, Fields, Sizes DEF MacInv, TypeOK, SendsPart
    <2>2. CASE /\ mac'.currentPreemptableFrame = NoFrame
               /\ deliveredPreemptable'
                    = Append(deliveredPreemptable, mac.currentPreemptableFrame)
      BY <1>3, <2>1, <2>2 DEF MacInv, NumbersInv, PreemptableIsComplete, queueVars, countVars
    <2>3. CASE /\ mac'.currentPreemptableFrame = mac.currentPreemptableFrame
               /\ deliveredPreemptable' = deliveredPreemptable
      BY <1>3, <2>3 DEF MacInv, NumbersInv, PreemptableIsComplete, queueVars, countVars
    <2>4. QED
      BY <1>2, <2>2, <2>3
  <1>10. NotifiedInv'
    BY <1>1, <1>3 DEF NotifiedInv, selectionVars
  <1>11. QED
    BY <1>1, <1>4, <1>5, <1>6, <1>7, <1>8, <1>9, <1>10 DEF MacInv

\* Steps that also leave requests of the selection, gates and deliveries alone.
LEMMA OnlyMacMoves ==
  ASSUME MacInv, mac' \in Mac, ~mac'.failed,
         UNCHANGED <<queueVars, selectionVars, gateVars, receiverVars, countVars,
                     expressWait>>,
         SameRest, mac'.onHold = mac.onHold,
         enableHoldAndRelease /\ untilTick = 0 => ~mac'.requestPacket,
         mac'.currentExpressFrame \in ExpressFrames \cup {NoFrame},
         mac'.transmitting = "express" => mac'.curTxFrame \in ExpressFrames,
         StageInv', HoldInv', KeptInv'
  PROVE  MacInv'
  <1>1. TypeOK'
    BY DEF MacInv, TypeOK, queueVars, selectionVars, gateVars, receiverVars, countVars
  <1>2. GatesInv'
    BY DEF MacInv, GatesInv, gateVars
  <1>3. FramesInv' /\ NumbersInv'
    BY FramesStay DEF MacInv, receiverVars, countVars
  <1>4. NotifiedInv'
    BY ReadyStays DEF MacInv, NotifiedInv, selectionVars, gateVars, queueVars
  <1>5. QED
    BY <1>1, <1>2, <1>3, <1>4 DEF MacInv

LEMMA GapEndsInv ==
  ASSUME MacInv, HandleEndIFGPeriod
  PROVE  MacInv'
  <1>1. /\ InGap(mac) /\ ~packetRequested
        /\ mac' \in Mac /\ ~mac'.failed
        /\ mac'.onHold = mac.onHold /\ SameRest
    BY GapEnds
  <1>2. UNCHANGED <<queueVars, selectionVars, gateVars, receiverVars, countVars,
                    expressWait>>
    BY DEF HandleEndIFGPeriod
  <1>3. ExpressReady' <=> ExpressReady
    BY <1>2, ReadyStays DEF queueVars, gateVars
  <1>4. enableHoldAndRelease /\ untilTick = 0 => ~mac'.requestPacket
    BY DEF HandleEndIFGPeriod
  <1>5. CASE /\ mac.currentExpressFrame # NoFrame
             /\ SendsExpress(mac') /\ mac'.curTxFrame = mac.currentExpressFrame
             /\ ~mac'.requestPacket
    <2>1. StageInv'
      BY <1>1, <1>2, <1>5 DEF StageInv, selectionVars
    <2>2. HoldInv' /\ KeptInv'
      BY <1>5 DEF HoldInv, KeptInv, SendsExpress
    <2>3. mac'.curTxFrame \in ExpressFrames
      BY <1>5 DEF MacInv, FramesInv
    <2>4. QED
      BY <1>1, <1>2, <1>4, <1>5, <2>1, <2>2, <2>3, OnlyMacMoves DEF SendsExpress
  <1>6. CASE ExpressReady /\ Idle(mac') /\ mac'.requestPacket
    <2>1. StageInv' /\ HoldInv' /\ KeptInv'
      BY <1>1, <1>2, <1>3, <1>6 DEF StageInv, HoldInv, KeptInv, Idle, selectionVars
    <2>2. QED
      BY <1>1, <1>2, <1>4, <1>6, <2>1, OnlyMacMoves DEF Idle
  <1>7. CASE /\ ~mac.onHold
             /\ SendsPart(mac') /\ mac'.currentExpressFrame = NoFrame
             /\ ~mac'.requestPacket
    <2>1. StageInv' /\ HoldInv' /\ KeptInv'
      BY <1>1, <1>2, <1>7 DEF StageInv, HoldInv, KeptInv, SendsPart, selectionVars
    <2>2. QED
      BY <1>1, <1>2, <1>4, <1>7, <2>1, OnlyMacMoves DEF SendsPart
  <1>8. CASE /\ mac.onHold \/ mac.currentPreemptableFrame = NoFrame
             /\ Idle(mac') /\ mac'.requestPacket
    <2>1. StageInv' /\ HoldInv' /\ KeptInv'
      BY <1>1, <1>2, <1>8 DEF StageInv, HoldInv, KeptInv, Idle, SameRest, selectionVars
    <2>2. QED
      BY <1>1, <1>2, <1>4, <1>8, <2>1, OnlyMacMoves DEF Idle
  <1>9. QED
    BY <1>5, <1>6, <1>7, <1>8, GapEnds

LEMMA RecheckIsDueInv ==
  ASSUME MacInv, Recheck
  PROVE  MacInv'
  <1>1. /\ SendsPart(mac) /\ ~packetRequested /\ mac.endTx # 0
        /\ IsPreemptionNowPossible(mac)
        /\ mac' = [mac EXCEPT !.recheck = NotScheduled,
                              !.requestPacket = mac.requestPacket \/ ExpressReady]
        /\ mac' \in Mac
    BY RecheckIsDue
  <1>2. mac \in Mac /\ ~mac.failed
    BY DEF MacInv, TypeOK
  <1>3. UNCHANGED <<queueVars, selectionVars, gateVars, receiverVars, countVars,
                    expressWait>>
    BY DEF Recheck
  <1>4. ExpressReady' <=> ExpressReady
    BY <1>3, ReadyStays DEF queueVars, gateVars
  <1>5. /\ mac'.transmitState = mac.transmitState /\ mac'.transmitting = mac.transmitting
        /\ mac'.curTxFrame = mac.curTxFrame
        /\ mac'.currentExpressFrame = mac.currentExpressFrame
        /\ mac'.currentPreemptableFrame = mac.currentPreemptableFrame
        /\ mac'.preemptedBytesSent = mac.preemptedBytesSent
        /\ mac'.elapsed = mac.elapsed /\ mac'.endTx = mac.endTx
        /\ mac'.endIFG = mac.endIFG
        /\ mac'.recheck = NotScheduled /\ mac'.preempt = mac.preempt
        /\ mac'.onHold = mac.onHold /\ mac'.failed = mac.failed
        /\ mac'.requestPacket <=> (mac.requestPacket \/ ExpressReady)
    BY <1>1, <1>2 DEF Mac
  <1>6. /\ SendsPart(mac') /\ IsPreemptionNowPossible(mac') /\ Rest(mac') = Rest(mac)
    <2>1. /\ mac'.recheck \in {mac.recheck, NotScheduled}
          /\ mac'.preempt \in {mac.preempt, NotScheduled}
      BY <1>5
    <2>2. SendsPart(mac') /\ Rest(mac') = Rest(mac)
      BY <1>1, <1>2, <1>5, <2>1, SamePart
    <2>3. IsPreemptionNowPossible(mac') <=> IsPreemptionNowPossible(mac)
      BY <1>5 DEF IsPreemptionNowPossible, PayloadBytesRemaining, PayloadBytesSent
    <2>4. QED
      BY <1>1, <2>2, <2>3
  <1>7. mac'.requestPacket => ExpressReady
    BY <1>1, <1>2, <1>5, Stages DEF MacInv, SendsPart
  <1>8. StageInv'
    BY <1>1, <1>3, <1>4, <1>5, <1>6, <1>7 DEF StageInv, selectionVars
  <1>9. HoldInv' /\ KeptInv'
    BY <1>1, <1>3, <1>5, <1>6
       DEF MacInv, HoldInv, KeptInv, UntilRelease, SendsPart, gateVars
  <1>10. enableHoldAndRelease /\ untilTick = 0 => ~ExpressReady
    BY NothingFitsBeforeTick DEF MacInv
  <1>11. QED
    BY <1>1, <1>2, <1>3, <1>5, <1>7, <1>8, <1>9, <1>10, OnlyMacMoves
       DEF MacInv, FramesInv, SameRest, SendsPart

LEMMA PreemptionIsDueInv ==
  ASSUME MacInv, PreemptCurrentFrameDue
  PROVE  MacInv'
  <1>1. /\ SendsPart(mac) /\ ~packetRequested
        /\ mac' \in Mac /\ ~mac'.failed /\ SendsPart(mac') /\ SameRest
        /\ IsPreemptionNowPossible(mac')
        /\ mac'.endTx = Checksum * ByteTime
        /\ mac'.elapsed = mac.elapsed
        /\ mac'.currentExpressFrame = mac.currentExpressFrame
        /\ mac'.onHold = mac.onHold /\ mac'.requestPacket = mac.requestPacket
    BY PreemptionIsDue
  <1>2. UNCHANGED <<queueVars, selectionVars, gateVars, receiverVars, countVars,
                    expressWait>>
    BY DEF PreemptCurrentFrameDue
  <1>3. ExpressReady' <=> ExpressReady
    BY <1>2, ReadyStays DEF queueVars, gateVars
  <1>4. mac'.requestPacket => ExpressReady
    BY <1>1, Stages DEF MacInv, TypeOK, SendsPart
  <1>5. StageInv'
    BY <1>1, <1>2, <1>3, <1>4, ChecksumTime, Sizes DEF StageInv, selectionVars
  <1>6. Rest(mac') = Rest(mac)
    BY <1>1 DEF Rest, SameRest
  <1>7. HoldInv' /\ KeptInv'
    BY <1>1, <1>2, <1>6
       DEF MacInv, HoldInv, KeptInv, UntilRelease, SendsPart, gateVars
  <1>8. QED
    BY <1>1, <1>2, <1>5, <1>7, OnlyMacMoves
       DEF MacInv, FramesInv, GatesInv, SendsPart

LEMMA HoldBeginsInv ==
  ASSUME MacInv, HoldRequest, HoldOutlastsFrames
  PROVE  MacInv'
  <1>1. /\ enableHoldAndRelease /\ ~expressWindow /\ untilTick = HoldAdvance
        /\ ~ExpressReady
        /\ mac' \in Mac /\ ~mac'.failed /\ mac'.onHold /\ SameRest
        /\ mac'.requestPacket = mac.requestPacket
        /\ mac'.currentExpressFrame = mac.currentExpressFrame
    BY HoldBegins
  <1>2. /\ holdRequest' = NotScheduled
        /\ UNCHANGED <<queueVars, selectionVars, enableHoldAndRelease, expressWindow,
                       untilTick, receiverVars, countVars, expressWait>>
    BY DEF HoldRequest
  <1>3. ~ExpressReady'
    BY <1>1, <1>2, ReadyStays DEF queueVars
  <1>4. mac \in Mac
    BY DEF MacInv, TypeOK
  <1>5. StageInv' /\ KeptInv'
    <2>1. CASE /\ SendsPart(mac) /\ ~packetRequested /\ ~mac.requestPacket
               /\ SendsPart(mac')
      BY <1>1, <1>2, <2>1 DEF StageInv, KeptInv, SendsPart, selectionVars
    <2>2. CASE Idle(mac) /\ Idle(mac')
      <3>1. mac.requestPacket <=> ~packetRequested
        BY <1>4, <2>2, Stages DEF MacInv, Idle
      <3>2. QED
        BY <1>1, <1>2, <2>2, <3>1 DEF StageInv, KeptInv, selectionVars
    <2>3. CASE InGap(mac) /\ InGap(mac')
      <3>1. ~mac.requestPacket /\ ~packetRequested
        BY <1>4, <2>3, Stages DEF MacInv, InGap
      <3>2. QED
        BY <1>1, <1>2, <2>3, <3>1 DEF StageInv, KeptInv, InGap, selectionVars
    <2>4. CASE SendsExpress(mac) /\ SendsExpress(mac')
      <3>1. ~mac.requestPacket /\ ~packetRequested
        BY <1>4, <2>4, Stages DEF MacInv, SendsExpress
      <3>2. QED
        BY <1>1, <1>2, <2>4, <3>1 DEF StageInv, KeptInv, SendsExpress, selectionVars
    <2>5. QED
      BY <2>1, <2>2, <2>3, <2>4, HoldBegins
  <1>6. GatesInv'
    BY <1>1, <1>2, Windows DEF MacInv, GatesInv
  <1>7. mac'.transmitting = "express" => mac'.curTxFrame \in ExpressFrames
    <2>1. mac'.transmitting = "express" =>
            SendsExpress(mac) /\ mac'.curTxFrame = mac.curTxFrame
      BY HoldBegins DEF SendsPart, Idle, InGap
    <2>2. QED
      BY <2>1 DEF MacInv, FramesInv, SendsExpress
  <1>8. FramesInv' /\ NumbersInv'
    BY <1>1, <1>2, <1>7, FramesStay DEF MacInv, FramesInv, receiverVars, countVars
  <1>9. HoldInv'
    <2>1. SUFFICES ASSUME mac'.transmitting = "preemptable"
                   PROVE  WireTime(Rest(mac')) - mac'.elapsed < UntilRelease'
      BY DEF HoldInv
    <2>2. SendsPart(mac')
      BY <2>1, HoldBegins DEF Idle, InGap, SendsExpress
    <2>3. mac'.currentPreemptableFrame \in PreemptableFrames
      BY <1>8, <2>2 DEF FramesInv, SendsPart
    <2>4. /\ mac'.currentPreemptableFrame.bytes \in PreemptableBytes
          /\ mac'.currentPreemptableFrame.bytes \in Nat
      BY <1>1, <2>3, Fields DEF PreemptableFrames
    <2>5. WireTime(mac'.currentPreemptableFrame.bytes) < HoldAdvance + ExpressWindow
      BY <1>1, <2>4 DEF HoldOutlastsFrames, MacInv, GatesInv
    <2>6. WireTime(Rest(mac')) <= WireTime(mac'.currentPreemptableFrame.bytes)
      <3>1. Rest(mac') \in Int /\ Rest(mac') <= mac'.currentPreemptableFrame.bytes
        BY <1>1, <2>4, Fields DEF Rest
      <3>2. /\ Rest(mac') * ByteTime <= mac'.currentPreemptableFrame.bytes * ByteTime
            /\ Rest(mac') * ByteTime \in Int /\ Preamble * ByteTime \in Int
            /\ mac'.currentPreemptableFrame.bytes * ByteTime \in Int
        BY <2>4, <3>1, Scaling, Sizes
      <3>3. QED
        BY <2>4, <3>1, <3>2, WireTimes
    <2>7. UntilRelease' = HoldAdvance + ExpressWindow
      BY <1>1, <1>2 DEF UntilRelease
    <2>8. /\ WireTime(Rest(mac')) \in Int /\ mac'.elapsed \in Nat
          /\ WireTime(mac'.currentPreemptableFrame.bytes) \in Int
      BY <1>1, <2>4, Fields, WireTimes
    <2>9. QED
      BY <2>5, <2>6, <2>7, <2>8, Windows
  <1>10. TypeOK'
    BY <1>1, <1>2, NotScheduledIsNoTime
       DEF MacInv, TypeOK, queueVars, selectionVars, receiverVars, countVars
  <1>11. NotifiedInv'
    BY <1>3 DEF NotifiedInv
  <1>12. QED
    BY <1>1, <1>5, <1>6, <1>8, <1>9, <1>10, <1>11 DEF MacInv

LEMMA TickOpensInv ==
  ASSUME MacInv, TickOpensExpress
  PROVE  MacInv'
  <1>1. /\ enableHoldAndRelease /\ untilTick = 0 /\ ~expressWindow
        /\ expressWindow' = TRUE /\ untilTick' = ExpressWindow
        /\ UNCHANGED <<queueVars, mac, packetRequested, enableHoldAndRelease,
                       holdRequest, receiverVars, countVars, expressWait>>
        /\ selectionPacketEnqueued' = (selectionPacketEnqueued \/ ExpressReady')
    BY DEF TickOpensExpress
  <1>2. mac \in Mac /\ ~mac.requestPacket
    BY <1>1 DEF MacInv, TypeOK, GatesInv
  <1>3. mac.onHold /\ holdRequest = NotScheduled
    <2>1. holdRequest # NotScheduled => holdRequest \in Nat
      BY NotScheduledIsNoTime DEF MacInv, TypeOK
    <2>2. \/ mac.onHold /\ holdRequest = NotScheduled
          \/ holdRequest # NotScheduled /\ 0 = holdRequest + HoldAdvance
      BY <1>1 DEF MacInv, GatesInv
    <2>3. ~(holdRequest \in Nat /\ 0 = holdRequest + HoldAdvance)
      BY Windows
    <2>4. QED
      BY <2>1, <2>2, <2>3
  <1>4. TypeOK'
    BY <1>1, Windows
       DEF MacInv, TypeOK, queueVars, receiverVars, countVars
  <1>5. StageInv'
    BY <1>1, <1>2 DEF MacInv, StageInv
  <1>6. GatesInv'
    BY <1>1, <1>2, <1>3 DEF MacInv, GatesInv
  <1>7. HoldInv'
    BY <1>1, Windows DEF MacInv, HoldInv, UntilRelease
  <1>8. KeptInv'
    BY <1>1, <1>3 DEF KeptInv
  <1>9. FramesInv' /\ NumbersInv'
    BY <1>1 DEF MacInv, FramesInv, NumbersInv, PreemptableIsComplete, queueVars,
                receiverVars, countVars
  <1>10. NotifiedInv'
    BY <1>1 DEF NotifiedInv
  <1>11. QED
    BY <1>1, <1>4, <1>5, <1>6, <1>7, <1>8, <1>9, <1>10 DEF MacInv

LEMMA TickClosesInv ==
  ASSUME MacInv, TickClosesExpress
  PROVE  MacInv'
  <1>1. /\ mac.onHold /\ ~mac.requestPacket /\ ~SendsPart(mac) /\ ~ExpressReady
        /\ mac' \in Mac /\ ~mac'.failed /\ ~mac'.onHold /\ SameRest
        /\ mac'.currentExpressFrame = mac.currentExpressFrame
    BY ReleaseFinds
  <1>2. /\ enableHoldAndRelease /\ ~expressWindow' /\ untilTick' = PreemptableWindow
        /\ expressWindow' = FALSE
        /\ packetRequested' = FALSE
        /\ selectionPacketEnqueued' = (selectionPacketEnqueued \/ PreemptableReady(FALSE))
        /\ holdRequest' = PreemptableWindow - HoldAdvance
        /\ UNCHANGED <<queueVars, enableHoldAndRelease, receiverVars, countVars,
                       expressWait>>
    BY <1>1 DEF TickClosesExpress, MacInv, TypeOK
  <1>3. holdRequest' \in Nat
    BY <1>2, Windows DEF MacInv, GatesInv
  <1>4. TypeOK'
    <2>1. {selectionPacketEnqueued', packetRequested', expressWindow',
           enableHoldAndRelease'} \subseteq BOOLEAN
      BY <1>2 DEF MacInv, TypeOK
    <2>2. untilTick' \in Nat /\ holdRequest' \in Timer
      BY <1>2, <1>3, Windows, NotScheduledIsNoTime
    <2>3. QED
      BY <1>1, <1>2, <2>1, <2>2 DEF MacInv, TypeOK, queueVars, receiverVars, countVars
  <1>5. StageInv' /\ HoldInv' /\ KeptInv'
    <2>1. CASE SendsExpress(mac') /\ ~mac'.requestPacket
      BY <1>2, <2>1 DEF StageInv, HoldInv, KeptInv, SendsExpress
    <2>2. CASE InGap(mac') /\ ~mac'.requestPacket
      BY <1>2, <2>2 DEF StageInv, HoldInv, KeptInv, InGap
    <2>3. CASE SendsPart(mac') /\ ~mac'.requestPacket
      BY <1>1, <1>2, <2>3 DEF StageInv, HoldInv, KeptInv, SendsPart
    <2>4. CASE /\ mac.currentPreemptableFrame = NoFrame
               /\ Idle(mac') /\ mac'.requestPacket
      BY <1>1, <1>2, <2>4 DEF StageInv, HoldInv, KeptInv, Idle, SameRest
    <2>5. QED
      BY <2>1, <2>2, <2>3, <2>4, ReleaseFinds
  <1>6. GatesInv'
    <2>1. untilTick' = holdRequest' + HoldAdvance /\ untilTick' # 0
      BY <1>2, Windows, Sizes
    <2>2. QED
      BY <1>1, <1>2, <1>3, <2>1, NotScheduledIsNoTime DEF MacInv, GatesInv
  <1>7. mac'.transmitting = "express" => mac'.curTxFrame \in ExpressFrames
    <2>1. mac'.transmitting = "express" =>
            SendsExpress(mac) /\ mac'.curTxFrame = mac.curTxFrame
      BY ReleaseFinds DEF SendsPart, Idle, InGap
    <2>2. QED
      BY <2>1 DEF MacInv, FramesInv, SendsExpress
  <1>8. FramesInv' /\ NumbersInv'
    BY <1>1, <1>2, <1>7, FramesStay DEF MacInv, FramesInv, receiverVars, countVars
  <1>9. NotifiedInv'
    BY <1>2 DEF NotifiedInv
  <1>10. QED
    BY <1>1, <1>4, <1>5, <1>6, <1>8, <1>9 DEF MacInv

\* What a queue keeps when its head goes.
LEMMA TailOfQueue ==
  ASSUME NEW S, NEW q \in Seq(S), q # <<>>
  PROVE  /\ Tail(q) \in Seq(S) /\ Head(q) \in S /\ Head(q) = q[1]
         /\ Len(q) \in Nat /\ Len(q) >= 1 /\ Len(Tail(q)) = Len(q) - 1
         /\ \A i \in 1 .. Len(Tail(q)) : Tail(q)[i] = q[i + 1]
  OBVIOUS

\* Strict priority has handed a packet to m, the MAC without its request.
LEMMA SelectionKeepsFrames ==
  ASSUME MacInv, NEW m \in Mac, ~m.failed, ~m.requestPacket,
         m.currentPreemptableFrame = mac.currentPreemptableFrame,
         m.preemptedBytesSent = mac.preemptedBytesSent,
         m.currentExpressFrame = mac.currentExpressFrame,
         \/ /\ Idle(m)
            /\ ~ExpressReady /\ ~m.onHold => m.currentPreemptableFrame = NoFrame
         \/ SendsPart(m) /\ IsPreemptionNowPossible(m) /\ ExpressReady,
         SelectPacket(m),
         UNCHANGED <<receiverVars, countVars>>
  PROVE  /\ FramesInv' /\ NumbersInv'
         /\ expressQueue' \in Seq(Frame) /\ preemptableQueue' \in Seq(Frame)
         /\ expressWait' \in Nat
  <1>1. /\ expressQueue \in Seq(ExpressFrames) /\ expressQueue \in Seq(Frame)
        /\ preemptableQueue \in Seq(PreemptableFrames) /\ preemptableQueue \in Seq(Frame)
        /\ deliveredPreemptable \in Seq(Frame) /\ preemptableCount \in Nat
        /\ expressWait \in Nat
    BY Sizes DEF MacInv, TypeOK, FramesInv
  <1>2. mac' \in Mac
    BY PacketSelected
  <1>3. CASE /\ ExpressReady /\ expressQueue # <<>>
             /\ expressQueue' = Tail(expressQueue) /\ preemptableQueue' = preemptableQueue
             /\ mac'.currentPreemptableFrame = m.currentPreemptableFrame
             /\ mac'.preemptedBytesSent = m.preemptedBytesSent
             /\ \/ /\ SendsExpress(mac') /\ mac'.curTxFrame \in ExpressFrames
                \/ /\ SendsPart(mac') /\ mac'.currentExpressFrame \in ExpressFrames
             /\ expressWait' \in {expressWait, 0}
    <2>1. expressQueue' \in Seq(ExpressFrames) /\ expressQueue' \in Seq(Frame)
      BY <1>1, <1>3, TailOfQueue
    <2>2. FramesInv'
      BY <1>3, <2>1 DEF MacInv, FramesInv, Rest, SendsExpress, SendsPart
    <2>3. NumbersInv'
      BY <1>3 DEF MacInv, NumbersInv, PreemptableIsComplete, receiverVars, countVars
    <2>4. QED
      BY <1>1, <1>3, <2>1, <2>2, <2>3
  <1>4. CASE /\ m.currentPreemptableFrame = NoFrame
             /\ preemptableQueue # <<>>
             /\ preemptableQueue' = Tail(preemptableQueue) /\ expressQueue' = expressQueue
             /\ SendsPart(mac') /\ Rest(mac') >= 1
             /\ mac'.currentExpressFrame = NoFrame
             /\ mac'.currentPreemptableFrame = Head(preemptableQueue)
             /\ expressWait' = expressWait
    <2>1. /\ preemptableQueue' \in Seq(PreemptableFrames)
          /\ preemptableQueue' \in Seq(Frame)
          /\ Head(preemptableQueue) \in PreemptableFrames
          /\ Head(preemptableQueue) = preemptableQueue[1]
          /\ Len(preemptableQueue) \in Nat /\ Len(preemptableQueue) >= 1
          /\ Len(preemptableQueue') = Len(preemptableQueue) - 1
          /\ \A i \in 1 .. Len(preemptableQueue') :
               preemptableQueue'[i] = preemptableQueue[i + 1]
      BY <1>1, <1>4, TailOfQueue
    <2>2. FramesInv'
      BY <1>1, <1>4, <2>1 DEF FramesInv, SendsPart
    <2>3. mac'.currentPreemptableFrame # NoFrame
      BY <1>4 DEF SendsPart
    <2>4. /\ \A i \in 1 .. Len(deliveredPreemptable) : deliveredPreemptable[i].number = i
          /\ preemptableCount = Len(deliveredPreemptable) + Len(preemptableQueue)
          /\ \A i \in 1 .. Len(preemptableQueue) :
               preemptableQueue[i].number = preemptableCount - Len(preemptableQueue) + i
          /\ Len(deliveredPreemptable) \in Nat
      BY <1>1, <1>4, <2>1 DEF MacInv, NumbersInv, PreemptableIsComplete
    <2>5. mac'.currentPreemptableFrame.number = Len(deliveredPreemptable) + 1
      BY <1>1, <1>4, <2>1, <2>4
    <2>6. /\ preemptableCount = Len(deliveredPreemptable) + Len(preemptableQueue') + 1
          /\ \A i \in 1 .. Len(preemptableQueue') :
               preemptableQueue'[i].number = preemptableCount - Len(preemptableQueue') + i
      <3>1. preemptableCount = Len(deliveredPreemptable) + Len(preemptableQueue') + 1
        BY <1>1, <2>1, <2>4
      <3>2. ASSUME NEW i \in 1 .. Len(preemptableQueue')
            PROVE  preemptableQueue'[i].number
                     = preemptableCount - Len(preemptableQueue') + i
        <4>1. i + 1 \in 1 .. Len(preemptableQueue) /\ i \in Nat
          BY <2>1, <3>2
        <4>2. preemptableQueue[i + 1].number
                = preemptableCount - Len(preemptableQueue) + (i + 1)
          BY <2>4, <4>1
        <4>3. preemptableQueue'[i] = preemptableQueue[i + 1]
          BY <2>1, <3>2
        <4>4. QED
          BY <1>1, <2>1, <4>1, <4>2, <4>3
      <3>3. QED
        BY <3>1, <3>2
    <2>7. NumbersInv'
      BY <2>3, <2>4, <2>5, <2>6 DEF NumbersInv, PreemptableIsComplete, receiverVars, countVars
    <2>8. QED
      BY <1>1, <1>4, <2>1, <2>2, <2>7
  <1>5. QED
    <2>1. \/ /\ ExpressReady /\ expressQueue # <<>>
             /\ expressQueue' = Tail(expressQueue) /\ preemptableQueue' = preemptableQueue
             /\ mac'.currentPreemptableFrame = m.currentPreemptableFrame
             /\ mac'.preemptedBytesSent = m.preemptedBytesSent
             /\ \/ /\ SendsExpress(mac') /\ mac'.curTxFrame \in ExpressFrames
                \/ /\ SendsPart(mac') /\ mac'.currentExpressFrame \in ExpressFrames
             /\ expressWait' \in {expressWait, 0}
          \/ /\ m.currentPreemptableFrame = NoFrame
             /\ preemptableQueue # <<>>
             /\ preemptableQueue' = Tail(preemptableQueue) /\ expressQueue' = expressQueue
             /\ SendsPart(mac') /\ Rest(mac') >= 1
             /\ mac'.currentExpressFrame = NoFrame
             /\ mac'.currentPreemptableFrame = Head(preemptableQueue)
             /\ expressWait' = expressWait
      BY PacketSelected
    <2>2. QED
      BY <1>3, <1>4, <2>1

LEMMA SelectionInv ==
  ASSUME MacInv, NEW m \in Mac, ~m.failed, ~m.requestPacket,
         m.currentPreemptableFrame = mac.currentPreemptableFrame,
         m.preemptedBytesSent = mac.preemptedBytesSent,
         m.currentExpressFrame = mac.currentExpressFrame,
         m.transmitting = mac.transmitting, m.elapsed = mac.elapsed,
         m.onHold = mac.onHold,
         \/ /\ Idle(m)
            /\ ~ExpressReady /\ ~m.onHold => m.currentPreemptableFrame = NoFrame
         \/ SendsPart(m) /\ IsPreemptionNowPossible(m) /\ ExpressReady,
         SelectPacket(m),
         packetRequested' = FALSE, selectionPacketEnqueued' \in BOOLEAN,
         UNCHANGED <<gateVars, receiverVars, countVars>>
  PROVE  MacInv'
  <1>1. /\ FramesInv' /\ NumbersInv'
        /\ expressQueue' \in Seq(Frame) /\ preemptableQueue' \in Seq(Frame)
        /\ expressWait' \in Nat
    BY SelectionKeepsFrames
  <1>2. /\ mac' \in Mac /\ ~mac'.failed /\ ~mac'.requestPacket
        /\ mac'.onHold = mac.onHold
    BY PacketSelected
  <1>3. TypeOK'
    BY <1>1, <1>2 DEF MacInv, TypeOK, gateVars, receiverVars, countVars
  <1>4. StageInv' /\ HoldInv' /\ KeptInv'
    <2>1. CASE SendsExpress(mac')
      BY <1>2, <2>1 DEF StageInv, HoldInv, KeptInv, SendsExpress
    <2>2. CASE /\ SendsPart(m) /\ SendsPart(mac') /\ mac'.elapsed = m.elapsed
               /\ mac'.currentPreemptableFrame = m.currentPreemptableFrame
               /\ mac'.preemptedBytesSent = m.preemptedBytesSent
      <3>1. Rest(mac') = Rest(mac) /\ mac.transmitting = "preemptable"
        BY <2>2 DEF Rest, SendsPart
      <3>2. HoldInv'
        BY <1>2, <2>2, <3>1 DEF MacInv, HoldInv, UntilRelease, gateVars
      <3>3. QED
        BY <1>2, <2>2, <3>2 DEF StageInv, KeptInv, SendsPart
    <2>3. CASE ~m.onHold /\ SendsPart(mac')
      BY <1>2, <2>3 DEF StageInv, HoldInv, KeptInv, SendsPart
    <2>4. QED
      <3>1. \/ SendsExpress(mac')
            \/ /\ SendsPart(m) /\ SendsPart(mac') /\ mac'.elapsed = m.elapsed
               /\ mac'.currentPreemptableFrame = m.currentPreemptableFrame
               /\ mac'.preemptedBytesSent = m.preemptedBytesSent
            \/ ~m.onHold /\ SendsPart(mac')
        BY PacketSelected
      <3>2. QED
        BY <2>1, <2>2, <2>3, <3>1
  <1>5. GatesInv'
    BY <1>2 DEF MacInv, GatesInv, gateVars
  <1>6. NotifiedInv'
    BY DEF NotifiedInv
  <1>7. QED
    BY <1>1, <1>2, <1>3, <1>4, <1>5, <1>6 DEF MacInv

\* A request that the MAC makes is its only one.
LEMMA RequestIsAlone ==
  ASSUME MacInv, mac.requestPacket
  PROVE  LET m == [mac EXCEPT !.requestPacket = FALSE]
         IN  /\ ~packetRequested
             /\ FailUnless(~packetRequested, m) = m
             /\ m \in Mac /\ ~m.failed /\ ~m.requestPacket
             /\ m.currentPreemptableFrame = mac.currentPreemptableFrame
             /\ m.preemptedBytesSent = mac.preemptedBytesSent
             /\ m.currentExpressFrame = mac.currentExpressFrame
             /\ m.curTxFrame = mac.curTxFrame
             /\ m.transmitting = mac.transmitting /\ m.elapsed = mac.elapsed
             /\ m.onHold = mac.onHold
             /\ \/ /\ Idle(mac) /\ Idle(m)
                   /\ ~ExpressReady /\ ~m.onHold => m.currentPreemptableFrame = NoFrame
                \/ /\ SendsPart(mac) /\ SendsPart(m)
                   /\ IsPreemptionNowPossible(m) /\ ExpressReady
  <1> DEFINE m == [mac EXCEPT !.requestPacket = FALSE]
  <1>1. mac \in Mac /\ ~mac.failed
    BY DEF MacInv, TypeOK
  <1>2. ~packetRequested
    BY <1>1 DEF MacInv, StageInv
  <1>3. /\ m.transmitState = mac.transmitState /\ m.transmitting = mac.transmitting
        /\ m.curTxFrame = mac.curTxFrame
        /\ m.currentExpressFrame = mac.currentExpressFrame
        /\ m.currentPreemptableFrame = mac.currentPreemptableFrame
        /\ m.preemptedBytesSent = mac.preemptedBytesSent
        /\ m.elapsed = mac.elapsed /\ m.endTx = mac.endTx /\ m.endIFG = mac.endIFG
        /\ m.recheck = mac.recheck /\ m.preempt = mac.preempt
        /\ m.onHold = mac.onHold /\ ~m.requestPacket
        /\ m.failed = mac.failed
    BY <1>1 DEF Mac
  <1>4. m \in Mac
    BY <1>1 DEF Mac
  <1>5. FailUnless(~packetRequested, m) = m
    BY <1>1, <1>2, Fields DEF FailUnless, Mac
  <1> HIDE DEF m
  <1>6. CASE Idle(mac)
    <2>1. Idle(m)
      BY <1>3, <1>6 DEF Idle
    <2>2. ~ExpressReady /\ ~m.onHold => m.currentPreemptableFrame = NoFrame
      BY <1>3, <1>6 DEF MacInv, KeptInv, Idle
    <2>3. QED
      BY <1>1, <1>2, <1>3, <1>4, <1>5, <1>6, <2>1, <2>2 DEF m
  <1>7. CASE SendsPart(mac)
    <2>1. ExpressReady /\ IsPreemptionNowPossible(mac)
      BY <1>1, <1>7, Stages DEF MacInv, SendsPart
    <2>2. SendsPart(m)
      BY <1>1, <1>3, <1>4, <1>7, SamePart
    <2>3. IsPreemptionNowPossible(m)
      BY <1>3, <2>1
         DEF IsPreemptionNowPossible, PayloadBytesRemaining, PayloadBytesSent
    <2>4. QED
      BY <1>1, <1>2, <1>3, <1>4, <1>5, <1>7, <2>1, <2>2, <2>3 DEF m
  <1>8. QED
    BY <1>6, <1>7 DEF MacInv, StageInv

LEMMA RequestHandledInv ==
  ASSUME MacInv, HandleRequestPacket
  PROVE  MacInv'
  <1> DEFINE m == [mac EXCEPT !.requestPacket = FALSE]
  <1>1. /\ mac.requestPacket
        /\ UNCHANGED <<selectionPacketEnqueued, gateVars, receiverVars, countVars>>
        /\ LET n == FailUnless(~packetRequested, m)
           IN  \/ SelectPacket(n) /\ packetRequested' = FALSE
               \/ /\ NothingReady /\ mac' = n /\ packetRequested' = TRUE
                  /\ UNCHANGED <<queueVars, expressWait>>
    BY DEF HandleRequestPacket
  <1>2. selectionPacketEnqueued \in BOOLEAN /\ mac \in Mac
    BY DEF MacInv, TypeOK
  <1>3. /\ FailUnless(~packetRequested, m) = m
        /\ m \in Mac /\ ~m.failed /\ ~m.requestPacket
        /\ m.currentPreemptableFrame = mac.currentPreemptableFrame
        /\ m.preemptedBytesSent = mac.preemptedBytesSent
        /\ m.currentExpressFrame = mac.currentExpressFrame
        /\ m.curTxFrame = mac.curTxFrame
        /\ m.transmitting = mac.transmitting /\ m.elapsed = mac.elapsed
        /\ m.onHold = mac.onHold
        /\ \/ /\ Idle(m)
              /\ ~ExpressReady /\ ~m.onHold => m.currentPreemptableFrame = NoFrame
           \/ SendsPart(m) /\ IsPreemptionNowPossible(m) /\ ExpressReady
    BY <1>1, RequestIsAlone
  <1> HIDE DEF m
  <1>4. CASE SelectPacket(m) /\ packetRequested' = FALSE
    BY <1>1, <1>2, <1>3, <1>4, SelectionInv
  <1>5. CASE /\ NothingReady /\ mac' = m /\ packetRequested' = TRUE
             /\ UNCHANGED <<queueVars, expressWait>>
    <2>1. /\ ~ExpressReady /\ Idle(m)
          /\ ~m.onHold => m.currentPreemptableFrame = NoFrame
      BY <1>3, <1>5 DEF NothingReady
    <2>2. ~ExpressReady'
      BY <1>1, <1>5, <2>1, ReadyStays DEF queueVars, gateVars
    <2>3. TypeOK'
      BY <1>1, <1>2, <1>3, <1>5
         DEF MacInv, TypeOK, queueVars, gateVars, receiverVars, countVars
    <2>4. StageInv' /\ HoldInv' /\ KeptInv'
      BY <1>3, <1>5, <2>1 DEF StageInv, HoldInv, KeptInv, Idle
    <2>5. GatesInv'
      BY <1>1, <1>3, <1>5 DEF MacInv, GatesInv, gateVars
    <2>6. FramesInv' /\ NumbersInv'
      BY <1>1, <1>3, <1>5, <2>1, FramesStay
         DEF MacInv, FramesInv, SameRest, Idle, receiverVars, countVars
    <2>7. NotifiedInv'
      BY <2>2 DEF NotifiedInv
    <2>8. QED
      BY <1>3, <1>5, <2>3, <2>4, <2>5, <2>6, <2>7 DEF MacInv
  <1>6. QED
    BY <1>1, <1>3, <1>4, <1>5

LEMMA NotificationHandledInv ==
  ASSUME MacInv, HandlePacketEnqueued
  PROVE  MacInv'
  <1>1. /\ mac \in Mac /\ ~mac.failed
        /\ packetRequested \in BOOLEAN /\ selectionPacketEnqueued' = FALSE
        /\ UNCHANGED <<gateVars, receiverVars, countVars>>
    BY DEF MacInv, TypeOK, HandlePacketEnqueued
  <1>2. CASE packetRequested /\ SelectPacket(mac) /\ packetRequested' = FALSE
    <2>1. Idle(mac) /\ ~mac.requestPacket
      BY <1>2 DEF MacInv, StageInv
    <2>2. ~ExpressReady /\ ~mac.onHold => mac.currentPreemptableFrame = NoFrame
      BY <2>1 DEF MacInv, KeptInv, Idle
    <2>3. QED
      BY <1>1, <1>2, <2>1, <2>2, SelectionInv
  <1>3. CASE /\ packetRequested /\ NothingReady
             /\ UNCHANGED <<mac, packetRequested, queueVars, expressWait>>
    <2>1. ~ExpressReady /\ ~ExpressReady'
      BY <1>1, <1>3, ReadyStays DEF NothingReady, queueVars, gateVars
    <2>2. TypeOK'
      BY <1>1, <1>3 DEF MacInv, TypeOK, queueVars, gateVars, receiverVars, countVars
    <2>3. Idle(mac) /\ ~mac.requestPacket
      BY <1>3 DEF MacInv, StageInv
    <2>4. StageInv' /\ HoldInv' /\ KeptInv'
      BY <1>1, <1>3, <2>3 DEF MacInv, StageInv, HoldInv, KeptInv, Idle
    <2>5. GatesInv'
      BY <1>1, <1>3 DEF MacInv, GatesInv, gateVars
    <2>6. FramesInv' /\ NumbersInv'
      BY <1>1, <1>3, FramesStay DEF MacInv, FramesInv, SameRest, receiverVars, countVars
    <2>7. NotifiedInv'
      BY <2>1 DEF NotifiedInv
    <2>8. QED
      BY <1>1, <1>3, <2>2, <2>4, <2>5, <2>6, <2>7 DEF MacInv
  <1>4. CASE /\ ~packetRequested /\ mac' = PacketEnqueued(mac)
             /\ UNCHANGED <<packetRequested, queueVars, expressWait>>
    <2>1. ExpressReady' <=> ExpressReady
      BY <1>1, <1>4, ReadyStays DEF queueVars, gateVars
    <2>2. /\ mac' \in Mac /\ ~mac'.failed /\ SameRest
          /\ mac'.transmitState = mac.transmitState
          /\ mac'.transmitting = mac.transmitting
          /\ mac'.curTxFrame = mac.curTxFrame
          /\ mac'.currentExpressFrame = mac.currentExpressFrame
          /\ mac'.elapsed = mac.elapsed /\ mac'.endTx = mac.endTx
          /\ mac'.endIFG = mac.endIFG
          /\ mac'.preempt = mac.preempt
          /\ mac'.onHold = mac.onHold
          /\ mac' = mac \/ (SendsPart(mac) /\ ExpressReady)
      <3>1. CASE mac' = mac
        BY <1>1, <3>1 DEF SameRest
      <3>2. CASE /\ SendsPart(mac) /\ ExpressReady
                 /\ mac' = [mac EXCEPT !.requestPacket = TRUE] /\ mac' \in Mac
        BY <1>1, <3>2 DEF Mac, SameRest
      <3>3. CASE /\ SendsPart(mac) /\ ExpressReady /\ mac' \in Mac
                 /\ mac' = [mac EXCEPT !.recheck = mac'.recheck]
        BY <1>1, <3>3 DEF Mac, SameRest
      <3>4. QED
        BY <1>4, <3>1, <3>2, <3>3, MacIsTold
    <2>3. TypeOK'
      BY <1>1, <1>4, <2>2 DEF MacInv, TypeOK, queueVars, gateVars, receiverVars, countVars
    <2>4. HoldInv'
      BY <1>1, <2>2 DEF MacInv, HoldInv, UntilRelease, Rest, SameRest, gateVars
    <2>5. StageInv' /\ KeptInv'
      <3>1. CASE mac' = mac
        BY <1>4, <2>1, <3>1 DEF MacInv, StageInv, KeptInv
      <3>2. CASE /\ SendsPart(mac) /\ ExpressReady /\ IsPreemptionNowPossible(mac)
                 /\ mac' = [mac EXCEPT !.requestPacket = TRUE] /\ mac' \in Mac
        <4>1. mac'.recheck = mac.recheck
          BY <1>1, <3>2 DEF Mac
        <4>2. SendsPart(mac')
          BY <1>1, <2>2, <3>2, <4>1, SamePart DEF SameRest
        <4>3. IsPreemptionNowPossible(mac')
          BY <2>2, <3>2
             DEF IsPreemptionNowPossible, PayloadBytesRemaining, PayloadBytesSent, SameRest
        <4>4. mac.endTx # 0
          BY <1>1, <3>2 DEF HandlePacketEnqueued, TimersQuiet
        <4>5. QED
          BY <1>4, <2>1, <2>2, <3>2, <4>2, <4>3, <4>4 DEF StageInv, KeptInv, SendsPart
      <3>3. CASE /\ SendsPart(mac) /\ ExpressReady /\ ~IsPreemptionNowPossible(mac)
                 /\ mac' \in Mac /\ SendsPart(mac')
                 /\ mac' = [mac EXCEPT !.recheck = mac'.recheck]
        <4>1. mac'.requestPacket = mac.requestPacket
          BY <1>1, <3>3 DEF Mac
        <4>2. ~mac.requestPacket
          BY <1>1, <3>3, Stages DEF MacInv, SendsPart
        <4>3. QED
          BY <1>4, <3>3, <4>1, <4>2 DEF StageInv, KeptInv, SendsPart
      <3>4. QED
        BY <1>4, <3>1, <3>2, <3>3, MacIsTold
    <2>6. GatesInv'
      <3>1. mac'.requestPacket => mac.requestPacket \/ ExpressReady
        BY <2>2
      <3>2. enableHoldAndRelease /\ untilTick = 0 => ~ExpressReady
        BY NothingFitsBeforeTick DEF MacInv
      <3>3. QED
        BY <1>1, <2>2, <3>1, <3>2 DEF MacInv, GatesInv, gateVars
    <2>7. FramesInv' /\ NumbersInv'
      BY <1>1, <1>4, <2>2, FramesStay DEF MacInv, FramesInv, receiverVars, countVars
    <2>8. NotifiedInv'
      BY <1>4 DEF NotifiedInv
    <2>9. QED
      BY <2>2, <2>3, <2>4, <2>5, <2>6, <2>7, <2>8 DEF MacInv
  <1>5. QED
    BY <1>2, <1>3, <1>4 DEF HandlePacketEnqueued

\* What a queue is when a packet has come.
LEMMA AppendedQueue ==
  ASSUME NEW S, NEW q \in Seq(S), NEW e \in S
  PROVE  /\ Append(q, e) \in Seq(S) /\ Append(q, e) # <<>>
         /\ Len(q) \in Nat /\ Len(Append(q, e)) = Len(q) + 1
         /\ Append(q, e)[Len(q) + 1] = e
         /\ \A i \in 1 .. Len(q) : Append(q, e)[i] = q[i]
         /\ q # <<>> => Head(Append(q, e)) = Head(q)
  <1>1. Append(q, e) \in Seq(S) /\ Len(q) \in Nat
    OBVIOUS
  <1>2. /\ Len(Append(q, e)) = Len(q) + 1 /\ Append(q, e)[Len(q) + 1] = e
        /\ \A i \in 1 .. Len(q) : Append(q, e)[i] = q[i]
    OBVIOUS
  <1>3. Append(q, e) # <<>>
    BY <1>1, <1>2
  <1>4. q # <<>> => Head(Append(q, e)) = Head(q)
    <2>1. SUFFICES ASSUME q # <<>>
                   PROVE  Head(Append(q, e)) = Head(q)
      OBVIOUS
    <2>2. Len(q) >= 1 /\ Head(q) = q[1]
      BY <2>1
    <2>3. Head(Append(q, e)) = Append(q, e)[1]
      BY <1>1, <1>3
    <2>4. QED
      BY <1>1, <1>2, <2>2, <2>3
  <1>5. QED
    BY <1>1, <1>2, <1>3, <1>4

LEMMA ExpressArrivesInv ==
  ASSUME MacInv, NEW bytes \in ExpressBytes, ArriveExpress(bytes)
  PROVE  MacInv' /\ (ExpressReady => ExpressReady')
  <1> DEFINE f == [express |-> TRUE, number |-> expressCount', bytes |-> bytes]
  <1>1. /\ expressCount < MaxExpress /\ expressCount' = expressCount + 1
        /\ expressQueue' = Append(expressQueue, f)
        /\ selectionPacketEnqueued' = (selectionPacketEnqueued \/ expressWindow)
        /\ UNCHANGED <<preemptableQueue, preemptableCount, mac, packetRequested,
                       gateVars, receiverVars, expressWait>>
    BY DEF ArriveExpress
  <1>2. /\ expressCount \in 0 .. MaxExpress
        /\ expressQueue \in Seq(ExpressFrames) /\ expressQueue \in Seq(Frame)
        /\ {selectionPacketEnqueued, expressWindow} \subseteq BOOLEAN
    BY DEF MacInv, TypeOK, FramesInv
  <1>3. expressCount' \in Nat /\ expressCount' \in 0 .. MaxExpress
    BY <1>1, <1>2, Sizes
  <1>4. f \in ExpressFrames /\ f \in Frame
    BY <1>3, Frames DEF ExpressFrames
  <1> HIDE DEF f
  <1>5. /\ expressQueue' \in Seq(ExpressFrames) /\ expressQueue' \in Seq(Frame)
        /\ expressQueue # <<>> => Head(expressQueue') = Head(expressQueue)
        /\ expressQueue' # <<>>
    BY <1>1, <1>2, <1>4, AppendedQueue
  <1>6. ExpressReady => ExpressReady'
    BY <1>1, <1>5 DEF ExpressReady, gateVars
  <1>7. ExpressReady' => expressWindow
    BY <1>1 DEF ExpressReady, MacInv, GatesInv, gateVars
  <1>8. TypeOK'
    <2>1. selectionPacketEnqueued' \in BOOLEAN
      BY <1>1, <1>2
    <2>2. QED
      BY <1>1, <1>3, <1>5, <2>1 DEF MacInv, TypeOK, gateVars, receiverVars
  <1>9. StageInv' /\ KeptInv'
    BY <1>1, <1>6 DEF MacInv, StageInv, KeptInv
  <1>10. GatesInv' /\ HoldInv'
    BY <1>1 DEF MacInv, GatesInv, HoldInv, UntilRelease, gateVars
  <1>11. FramesInv' /\ NumbersInv'
    BY <1>1, <1>5 DEF MacInv, FramesInv, NumbersInv, PreemptableIsComplete, receiverVars
  <1>12. NotifiedInv'
    BY <1>1, <1>7 DEF NotifiedInv
  <1>13. QED
    BY <1>1, <1>6, <1>8, <1>9, <1>10, <1>11, <1>12 DEF MacInv

LEMMA PreemptableArrivesInv ==
  ASSUME MacInv, NEW bytes \in PreemptableBytes, ArrivePreemptable(bytes)
  PROVE  MacInv'
  <1> DEFINE f == [express |-> FALSE, number |-> preemptableCount', bytes |-> bytes]
             q == preemptableQueue
  <1>1. /\ preemptableCount < MaxPreemptable /\ preemptableCount' = preemptableCount + 1
        /\ preemptableQueue' = Append(preemptableQueue, f)
        /\ selectionPacketEnqueued' = (selectionPacketEnqueued \/ ~mac.onHold)
        /\ UNCHANGED <<expressQueue, expressCount, mac, packetRequested, gateVars,
                       receiverVars, expressWait>>
    BY DEF ArrivePreemptable
  <1>2. /\ preemptableCount \in 0 .. MaxPreemptable /\ preemptableCount \in Nat
        /\ preemptableQueue \in Seq(PreemptableFrames) /\ preemptableQueue \in Seq(Frame)
        /\ selectionPacketEnqueued \in BOOLEAN /\ mac \in Mac
        /\ deliveredPreemptable \in Seq(Frame)
    BY Sizes DEF MacInv, TypeOK, FramesInv
  <1>3. preemptableCount' \in Nat /\ preemptableCount' \in 0 .. MaxPreemptable
    BY <1>1, <1>2, Sizes
  <1>4. f \in PreemptableFrames /\ f \in Frame /\ f.number = preemptableCount'
    BY <1>3, Frames DEF PreemptableFrames
  <1> HIDE DEF f
  <1>5. /\ q' \in Seq(PreemptableFrames) /\ q' \in Seq(Frame)
        /\ Len(q) \in Nat /\ Len(q') = Len(q) + 1 /\ q'[Len(q) + 1] = f
        /\ \A i \in 1 .. Len(q) : q'[i] = q[i]
    BY <1>1, <1>2, <1>4, AppendedQueue
  <1>6. ExpressReady' <=> ExpressReady
    BY <1>1, ReadyStays DEF gateVars
  <1>7. TypeOK'
    <2>1. selectionPacketEnqueued' \in BOOLEAN
      BY <1>1, <1>2
    <2>2. QED
      BY <1>1, <1>3, <1>5, <2>1 DEF MacInv, TypeOK, gateVars, receiverVars
  <1>8. StageInv' /\ KeptInv'
    BY <1>1, <1>6 DEF MacInv, StageInv, KeptInv
  <1>9. GatesInv' /\ HoldInv'
    BY <1>1 DEF MacInv, GatesInv, HoldInv, UntilRelease, gateVars
  <1>10. FramesInv'
    BY <1>1, <1>5 DEF MacInv, FramesInv
  <1>11. NumbersInv'
    <2>1. PreemptableIsComplete'
      <3>1. Len(deliveredPreemptable) \in Nat
        BY <1>2
      <3>2. QED
        BY <1>1, <1>2, <1>5, <3>1 DEF MacInv, NumbersInv, PreemptableIsComplete, receiverVars
    <2>2. ASSUME NEW i \in 1 .. Len(q')
          PROVE  q'[i].number = preemptableCount' - Len(q') + i
      <3>1. CASE i = Len(q) + 1
        BY <1>2, <1>3, <1>4, <1>5, <3>1
      <3>2. CASE i \in 1 .. Len(q)
        <4>1. q[i].number = preemptableCount - Len(q) + i
          BY <3>2 DEF MacInv, NumbersInv
        <4>2. q'[i] = q[i] /\ i \in Nat
          BY <1>5, <3>2
        <4>3. QED
          BY <1>1, <1>2, <1>5, <4>1, <4>2
      <3>3. QED
        BY <1>5, <2>2, <3>1, <3>2
    <2>3. QED
      BY <2>1, <2>2 DEF NumbersInv
  <1>12. NotifiedInv'
    BY <1>1, <1>6 DEF MacInv, NotifiedInv
  <1>13. QED
    BY <1>1, <1>7, <1>8, <1>9, <1>10, <1>11, <1>12 DEF MacInv

LEMMA TimersRun ==
  ASSUME NEW timer \in Timer, timer # 0
  PROVE  /\ Later(timer) \in Timer
         /\ timer = NotScheduled => Later(timer) = NotScheduled
         /\ timer # NotScheduled => /\ Later(timer) = timer - 1
                                    /\ timer \in Nat /\ Later(timer) \in Nat
                                    /\ Later(timer) # NotScheduled
  BY DEF Timer, Later, NotScheduled

\* Time passes between events only.
LEMMA TimePasses ==
  ASSUME MacInv, Elapse
  PROVE  /\ mac' \in Mac /\ ~mac'.failed /\ SameRest
         /\ ~mac.requestPacket /\ ~mac'.requestPacket
         /\ mac'.onHold = mac.onHold
         /\ mac'.transmitState = mac.transmitState
         /\ mac'.transmitting = mac.transmitting
         /\ mac'.curTxFrame = mac.curTxFrame
         /\ mac'.currentExpressFrame = mac.currentExpressFrame
         /\ mac'.elapsed = IF mac.transmitting = "preemptable"
                             THEN mac.elapsed + 1 ELSE 0
         /\ 0 \notin {mac.endTx, mac.endIFG, mac.recheck, mac.preempt}
         /\ mac'.endTx = Later(mac.endTx) /\ mac'.endIFG = Later(mac.endIFG)
         /\ mac'.recheck = Later(mac.recheck) /\ mac'.preempt = Later(mac.preempt)
         /\ ExpressReady' => ExpressReady
         /\ SendsPart(mac) => SendsPart(mac') /\ Rest(mac') = Rest(mac)
                                /\ PartEnd(mac') = PartEnd(mac)
  <1>1. /\ mac \in Mac /\ ~mac.failed /\ untilTick \in Nat
        /\ expressQueue \in Seq(Frame) /\ enableHoldAndRelease \in BOOLEAN
    BY DEF MacInv, TypeOK
  <1>2. /\ ~mac.requestPacket
        /\ 0 \notin {mac.endTx, mac.endIFG, mac.recheck, mac.preempt}
        /\ mac' = [mac EXCEPT
             !.elapsed = IF mac.transmitting = "preemptable" THEN @ + 1 ELSE 0,
             !.endTx = Later(@), !.endIFG = Later(@),
             !.recheck = Later(@), !.preempt = Later(@)]
        /\ untilTick' = IF enableHoldAndRelease THEN untilTick - 1 ELSE untilTick
        /\ UNCHANGED <<queueVars, enableHoldAndRelease, expressWindow>>
    BY DEF Elapse, InstantOver, TimersQuiet
  <1>3. /\ mac'.transmitState = mac.transmitState
        /\ mac'.transmitting = mac.transmitting
        /\ mac'.curTxFrame = mac.curTxFrame
        /\ mac'.currentExpressFrame = mac.currentExpressFrame
        /\ mac'.currentPreemptableFrame = mac.currentPreemptableFrame
        /\ mac'.preemptedBytesSent = mac.preemptedBytesSent
        /\ mac'.elapsed = IF mac.transmitting = "preemptable"
                            THEN mac.elapsed + 1 ELSE 0
        /\ mac'.endTx = Later(mac.endTx) /\ mac'.endIFG = Later(mac.endIFG)
        /\ mac'.recheck = Later(mac.recheck) /\ mac'.preempt = Later(mac.preempt)
        /\ mac'.onHold = mac.onHold /\ mac'.requestPacket = mac.requestPacket
        /\ mac'.failed = mac.failed
    BY <1>1, <1>2 DEF Mac
  <1>4. /\ Later(mac.endTx) \in Timer /\ Later(mac.endIFG) \in Timer
        /\ Later(mac.recheck) \in Timer /\ Later(mac.preempt) \in Timer
    BY <1>1, <1>2, TimersRun, Fields
  <1>5. mac' \in Mac
    <2>1. (IF mac.transmitting = "preemptable" THEN mac.elapsed + 1 ELSE 0) \in Nat
      BY <1>1, Fields
    <2>2. QED
      BY <1>1, <1>2, <1>4, <2>1 DEF Mac
  <1>6. ExpressReady' => ExpressReady
    <2>1. SUFFICES ASSUME expressQueue # <<>>,
                          WireTime(Head(expressQueue).bytes) <= untilTick - 1
                   PROVE  WireTime(Head(expressQueue).bytes) <= untilTick
      BY <1>2 DEF ExpressReady, queueVars
    <2>2. Head(expressQueue).bytes \in Nat
      <3>1. Head(expressQueue) \in Frame
        BY <1>1, <2>1
      <3>2. QED
        BY <3>1 DEF Frame
    <2>3. WireTime(Head(expressQueue).bytes) \in Int
      BY <2>2, WireTimes
    <2>4. QED
      BY <1>1, <2>1, <2>3
  <1>7. ASSUME SendsPart(mac)
        PROVE  /\ SendsPart(mac') /\ Rest(mac') = Rest(mac)
               /\ PartEnd(mac') = PartEnd(mac)
    <2>1. /\ mac.transmitting = "preemptable" /\ mac.endTx \in Nat /\ mac.endTx # 0
          /\ mac.endIFG = NotScheduled /\ mac.elapsed \in Nat
      BY <1>1, <1>2, <1>7, Fields DEF SendsPart
    <2>2. /\ mac'.endTx = mac.endTx - 1 /\ mac'.endTx \in Nat
          /\ mac'.endIFG = NotScheduled /\ mac'.elapsed = mac.elapsed + 1
      BY <1>3, <2>1, NotScheduledIsNoTime DEF Later
    <2>3. PartEnd(mac') = PartEnd(mac) /\ Rest(mac') = Rest(mac)
      BY <1>3, <2>1, <2>2 DEF PartEnd, Rest
    <2>4. ASSUME NEW timer \in Timer, timer # 0, AwaitsCut(mac, timer)
          PROVE  AwaitsCut(mac', Later(timer))
      <3>1. SUFFICES ASSUME timer # NotScheduled
                     PROVE  AwaitsCut(mac', timer - 1)
        BY <2>4, TimersRun DEF AwaitsCut
      <3>2. mac'.elapsed + (timer - 1) = mac.elapsed + timer
        BY <2>1, <2>2, <2>4, <3>1, TimersRun
      <3>3. QED
        BY <2>3, <2>4, <3>1, <3>2 DEF AwaitsCut
    <2>5. AwaitsCut(mac', mac'.recheck) /\ AwaitsCut(mac', mac'.preempt)
      BY <1>1, <1>2, <1>3, <1>7, <2>4, Fields DEF SendsPart
    <2>6. \A sent \in 0 .. mac.currentPreemptableFrame.bytes :
            CutAfter(mac, sent) => CutAfter(mac', sent)
      BY <2>1, <2>2, <2>3, ChecksumTime DEF CutAfter
    <2>7. Uncut(mac) => Uncut(mac')
      BY <2>3 DEF Uncut
    <2>8. SendsPart(mac')
      BY <1>3, <1>7, <2>2, <2>3, <2>5, <2>6, <2>7 DEF SendsPart
    <2>9. QED
      BY <2>3, <2>8
  <1>8. QED
    BY <1>1, <1>2, <1>3, <1>5, <1>6, <1>7 DEF SameRest

LEMMA TimePassesInv ==
  ASSUME MacInv, Elapse
  PROVE  MacInv'
  <1>1. /\ mac' \in Mac /\ ~mac'.failed /\ SameRest
        /\ ~mac.requestPacket /\ ~mac'.requestPacket
        /\ mac'.onHold = mac.onHold
        /\ mac'.transmitState = mac.transmitState
        /\ mac'.transmitting = mac.transmitting
        /\ mac'.curTxFrame = mac.curTxFrame
        /\ mac'.currentExpressFrame = mac.currentExpressFrame
        /\ 0 \notin {mac.endTx, mac.endIFG, mac.recheck, mac.preempt}
        /\ mac'.endTx = Later(mac.endTx) /\ mac'.endIFG = Later(mac.endIFG)
        /\ mac'.recheck = Later(mac.recheck) /\ mac'.preempt = Later(mac.preempt)
        /\ ExpressReady' => ExpressReady
    BY TimePasses
  <1>2. /\ enableHoldAndRelease => untilTick # 0
        /\ holdRequest # 0 /\ holdRequest' = Later(holdRequest)
        /\ untilTick' = IF enableHoldAndRelease THEN untilTick - 1 ELSE untilTick
        /\ expressWait' = IF ExpressWaits THEN expressWait + 1 ELSE 0
        /\ UNCHANGED <<queueVars, countVars, selectionVars, enableHoldAndRelease,
                       expressWindow, receiverVars>>
    BY DEF Elapse, InstantOver, TimersQuiet
  <1>3. /\ mac \in Mac /\ untilTick \in Nat /\ holdRequest \in Timer
        /\ enableHoldAndRelease \in BOOLEAN /\ expressWait \in Nat
    BY DEF MacInv, TypeOK
  <1>4. untilTick' \in Nat /\ holdRequest' \in Timer /\ expressWait' \in Nat
    BY <1>2, <1>3, TimersRun
  <1>5. TypeOK'
    BY <1>1, <1>2, <1>4 DEF MacInv, TypeOK, queueVars, countVars, selectionVars, receiverVars
  <1>6. StageInv'
    <2>1. CASE Idle(mac) /\ (mac.requestPacket <=> ~packetRequested)
      <3>1. Idle(mac')
        BY <1>1, <2>1 DEF Idle, Later
      <3>2. QED
        BY <1>1, <1>2, <2>1, <3>1 DEF StageInv, selectionVars
    <2>2. CASE InGap(mac) /\ ~packetRequested
      <3>1. mac.endIFG \in Timer /\ mac.endIFG # 0 /\ mac.endIFG # NotScheduled
        BY <1>1, <2>2, NotScheduledIsNoTime DEF InGap
      <3>2. mac'.endIFG \in Nat
        BY <1>1, <3>1, TimersRun
      <3>3. InGap(mac')
        BY <1>1, <2>2, <3>2 DEF InGap, Later
      <3>4. QED
        BY <1>1, <1>2, <2>2, <3>3 DEF StageInv, selectionVars
    <2>3. CASE SendsExpress(mac) /\ ~packetRequested
      <3>1. mac.endTx \in Timer /\ mac.endTx # 0 /\ mac.endTx # NotScheduled
        BY <1>1, <2>3, NotScheduledIsNoTime DEF SendsExpress
      <3>2. mac'.endTx \in Nat
        BY <1>1, <3>1, TimersRun
      <3>3. SendsExpress(mac')
        BY <1>1, <2>3, <3>2 DEF SendsExpress, Later
      <3>4. QED
        BY <1>1, <1>2, <2>3, <3>3 DEF StageInv, selectionVars
    <2>4. CASE SendsPart(mac) /\ ~packetRequested
      <3>1. SendsPart(mac')
        BY <2>4, TimePasses
      <3>2. QED
        BY <1>1, <1>2, <2>4, <3>1 DEF StageInv, selectionVars
    <2>5. QED
      BY <2>1, <2>2, <2>3, <2>4 DEF MacInv, StageInv
  <1>7. GatesInv'
    <2>1. CASE enableHoldAndRelease
      <3>1. untilTick' = untilTick - 1
        BY <1>2, <2>1
      <3>2. /\ holdRequest = NotScheduled => holdRequest' = NotScheduled
            /\ holdRequest # NotScheduled =>
                 /\ holdRequest' = holdRequest - 1 /\ holdRequest' # NotScheduled
                 /\ holdRequest \in Nat
        BY <1>2, <1>3, TimersRun
      <3>3. holdRequest # NotScheduled /\ untilTick = holdRequest + HoldAdvance
              => untilTick' = holdRequest' + HoldAdvance
        BY <1>3, <3>1, <3>2, Windows
      <3>4. QED
        BY <1>1, <1>2, <2>1, <3>2, <3>3 DEF MacInv, GatesInv
    <2>2. CASE ~enableHoldAndRelease
      BY <1>1, <1>2, <2>2 DEF MacInv, GatesInv, Later
    <2>3. QED
      BY <2>1, <2>2
  <1>8. HoldInv'
    <2>1. SUFFICES ASSUME mac.onHold, mac.transmitting = "preemptable"
                   PROVE  WireTime(Rest(mac')) - mac'.elapsed < UntilRelease'
      BY <1>1 DEF HoldInv
    <2>2. enableHoldAndRelease
      BY <2>1 DEF MacInv, GatesInv
    <2>3. SendsPart(mac)
      BY <1>3, <2>1, Stages DEF MacInv
    <2>4. Rest(mac') = Rest(mac) /\ mac'.elapsed = mac.elapsed + 1
      BY <2>1, <2>3, TimePasses
    <2>5. WireTime(Rest(mac)) \in Int /\ mac.elapsed \in Nat
      BY <1>3, Fields, WireTimes
    <2>6. UntilRelease' = UntilRelease - 1 /\ UntilRelease \in Int
      BY <1>2, <1>3, <2>2, Windows DEF UntilRelease
    <2>7. WireTime(Rest(mac)) - mac.elapsed < UntilRelease
      BY <2>1 DEF MacInv, HoldInv
    <2>8. QED
      BY <2>4, <2>5, <2>6, <2>7
  <1>9. KeptInv'
    BY <1>1 DEF MacInv, KeptInv, SameRest
  <1>10. FramesInv' /\ NumbersInv'
    BY <1>1, <1>2, FramesStay DEF MacInv, FramesInv, countVars, receiverVars
  <1>11. NotifiedInv'
    BY <1>1, <1>2 DEF MacInv, NotifiedInv, selectionVars
  <1>12. QED
    BY <1>1, <1>5, <1>6, <1>7, <1>8, <1>9, <1>10, <1>11 DEF MacInv

LEMMA StepMac ==
  ASSUME HoldOutlastsFrames, MacInv, [Next]_vars
  PROVE  MacInv'
  <1>1. CASE EventLoop
    <2>1. CASE HandleEndTxPeriodExpress
      BY <2>1, ExpressEndsInv
    <2>2. CASE HandleEndTxPeriodPreemptable
      BY <2>2, PartEndsInv
    <2>3. CASE HandleEndIFGPeriod
      BY <2>3, GapEndsInv
    <2>4. CASE Recheck
      BY <2>4, RecheckIsDueInv
    <2>5. CASE PreemptCurrentFrameDue
      BY <2>5, PreemptionIsDueInv
    <2>6. CASE HoldRequest
      BY <2>6, HoldBeginsInv
    <2>7. CASE TickOpensExpress
      BY <2>7, TickOpensInv
    <2>8. CASE TickClosesExpress
      BY <2>8, TickClosesInv
    <2>9. CASE HandleRequestPacket
      BY <2>9, RequestHandledInv
    <2>10. CASE HandlePacketEnqueued
      BY <2>10, NotificationHandledInv
    <2>11. CASE Elapse
      BY <2>11, TimePassesInv
    <2>12. QED
      BY <1>1, <2>1, <2>2, <2>3, <2>4, <2>5, <2>6, <2>7, <2>8, <2>9, <2>10, <2>11
         DEF EventLoop
  <1>2. CASE \E bytes \in ExpressBytes : ArriveExpress(bytes)
    BY <1>2, ExpressArrivesInv
  <1>3. CASE \E bytes \in PreemptableBytes : ArrivePreemptable(bytes)
    BY <1>3, PreemptableArrivesInv
  <1>4. CASE UNCHANGED vars
    <2>1. UNCHANGED <<expressQueue, preemptableQueue, mac, selectionPacketEnqueued,
                      packetRequested, enableHoldAndRelease, expressWindow, untilTick,
                      holdRequest, receivedPreemptedFrame, deliveredPreemptable,
                      deliveredExpress, expressCount, preemptableCount, expressWait>>
      BY <1>4 DEF vars, queueVars, countVars, selectionVars, gateVars, receiverVars
    <2>2. ExpressReady' <=> ExpressReady
      BY <2>1, ReadyStays
    <2>3. TypeOK' /\ StageInv'
      BY <2>1, <2>2 DEF MacInv, TypeOK, StageInv
    <2>4. GatesInv' /\ HoldInv' /\ KeptInv' /\ NotifiedInv'
      BY <2>1, <2>2 DEF MacInv, GatesInv, HoldInv, UntilRelease, KeptInv, NotifiedInv
    <2>5. FramesInv' /\ NumbersInv' /\ ~mac'.failed
      BY <2>1 DEF MacInv, FramesInv, NumbersInv, PreemptableIsComplete
    <2>6. QED
      BY <2>3, <2>4, <2>5 DEF MacInv
  <1>5. QED
    BY <1>1, <1>2, <1>3, <1>4 DEF Next

(***************************************************************************)
(* What the runs check                                                     *)
(***************************************************************************)

\* Where every frame is, what every timer is for and what the gates have
\* announced, in every reachable state; the type invariant is a part of it.
THEOREM MacConsistency ==
  ASSUME HoldOutlastsFrames
  PROVE  Spec => [](TypeOK /\ MacInv)
  <1>1. Init => MacInv
    BY InitMac
  <1>2. MacInv /\ [Next]_vars => MacInv'
    BY StepMac
  <1>3. MacInv => TypeOK /\ MacInv
    BY DEF MacInv
  <1>4. QED
    BY <1>1, <1>2, <1>3, PTL DEF Spec

\* No assertion and no throw on a frame's way is reached, whatever the MAC is
\* doing when packets, holds and releases come.
THEOREM AssertionsNeverFail ==
  ASSUME HoldOutlastsFrames
  PROVE  Spec => []AssertionsHold
  <1>1. MacInv => AssertionsHold
    BY DEF MacInv, AssertionsHold
  <1>2. QED
    BY <1>1, MacConsistency, PTL

\* However often a preemptable frame is interrupted, it is delivered once, in
\* its turn, and none is lost between the queue, the MAC and the receiver.
THEOREM PreemptableFramesAreComplete ==
  ASSUME HoldOutlastsFrames
  PROVE  Spec => []PreemptableIsComplete
  <1>1. MacInv => PreemptableIsComplete
    BY DEF MacInv, NumbersInv
  <1>2. QED
    BY <1>1, MacConsistency, PTL

\* Wherever a preemptable frame is cut, at once, at a recheck, for a hold or a
\* second time for another express frame, the fragment that is sent and the
\* rest of the frame are both long enough.
THEOREM FragmentsStayLegal ==
  ASSUME HoldOutlastsFrames
  PROVE  Spec => FragmentsAreLegal
  <1>1. ASSUME MacInv, HandleEndTxPeriodPreemptable,
               mac'.currentPreemptableFrame # NoFrame
        PROVE  /\ mac'.preemptedBytesSent - mac.preemptedBytesSent >= MinNonFinal
               /\ mac.currentPreemptableFrame.bytes - mac'.preemptedBytesSent >= MinFinal
    <2>1. /\ mac'.currentPreemptableFrame = mac.currentPreemptableFrame
          /\ mac'.preemptedBytesSent - mac.preemptedBytesSent >= MinNonFinal
          /\ Rest(mac') >= MinFinal
      BY <1>1, PartEnds
    <2>2. QED
      BY <2>1 DEF Rest
  <1>2. MacInv /\ [Next]_vars =>
          [HandleEndTxPeriodPreemptable /\ mac'.currentPreemptableFrame # NoFrame =>
             /\ mac'.preemptedBytesSent - mac.preemptedBytesSent >= MinNonFinal
             /\ mac.currentPreemptableFrame.bytes - mac'.preemptedBytesSent >= MinFinal
          ]_vars
    BY <1>1
  <1>3. QED
    BY <1>2, MacConsistency, PTL DEF Spec, FragmentsAreLegal

\* While the MAC is on hold no part of a preemptable frame begins: not when a
\* gap ends, nor with a packet that was requested before the hold.
THEOREM HoldsKeepBack ==
  ASSUME HoldOutlastsFrames
  PROVE  Spec => HoldKeepsBack
  <1>1. ASSUME MacInv, Next, mac.onHold, mac'.onHold, mac.transmitting = "nothing"
        PROVE  mac'.transmitting # "preemptable"
    <2>1. mac \in Mac /\ (Idle(mac) \/ InGap(mac))
      BY <1>1, Stages DEF MacInv, TypeOK
    <2>2. ~SendsPart(mac) /\ ~SendsExpress(mac) /\ mac.recheck = NotScheduled
          /\ mac.preempt = NotScheduled
      BY <2>1 DEF Idle, InGap, SendsPart, SendsExpress
    <2>3. CASE HandleEndTxPeriodExpress \/ HandleEndTxPeriodPreemptable
      BY <1>1, <2>3 DEF HandleEndTxPeriodExpress, HandleEndTxPeriodPreemptable
    <2>4. CASE HandleEndIFGPeriod
      BY <1>1, <2>4, GapEnds DEF SendsExpress, Idle
    <2>5. CASE Recheck \/ PreemptCurrentFrameDue
      BY <2>2, <2>5 DEF Recheck, PreemptCurrentFrameDue, NotScheduled
    <2>6. CASE HoldRequest
      BY <1>1, <2>2, <2>6, HoldBegins DEF Idle, InGap
    <2>7. CASE TickOpensExpress
      BY <1>1, <2>7 DEF TickOpensExpress
    <2>8. CASE TickClosesExpress
      BY <1>1, <2>8, ReleaseFinds
    <2>9. CASE HandleRequestPacket
      <3> DEFINE m == [mac EXCEPT !.requestPacket = FALSE]
      <3>1. /\ FailUnless(~packetRequested, m) = m
            /\ m \in Mac /\ ~m.failed /\ ~m.requestPacket
            /\ m.transmitting = "nothing" /\ m.onHold
            /\ Idle(m) /\ (~ExpressReady /\ ~m.onHold => m.currentPreemptableFrame = NoFrame)
        BY <1>1, <2>2, <2>9, RequestIsAlone DEF HandleRequestPacket
      <3>2. SelectPacket(m) \/ mac' = m
        BY <2>9, <3>1 DEF HandleRequestPacket
      <3> HIDE DEF m
      <3>3. ~SendsPart(m)
        BY <3>1 DEF SendsPart
      <3>4. SelectPacket(m) => SendsExpress(mac')
        BY <1>1, <3>1, <3>3, PacketSelected
      <3>5. QED
        BY <3>1, <3>2, <3>4 DEF SendsExpress
    <2>10. CASE HandlePacketEnqueued
      <3>1. CASE packetRequested /\ SelectPacket(mac)
        <4>1. Idle(mac) /\ ~mac.requestPacket /\ ~mac.failed
          BY <2>1, <2>2, <3>1, <1>1 DEF MacInv, StageInv
        <4>2. SendsExpress(mac')
          BY <1>1, <2>1, <2>2, <3>1, <4>1, PacketSelected
        <4>3. QED
          BY <4>2 DEF SendsExpress
      <3>2. CASE mac' = mac \/ mac' = PacketEnqueued(mac)
        BY <1>1, <3>2 DEF PacketEnqueued
      <3>3. QED
        BY <2>10, <3>1, <3>2 DEF HandlePacketEnqueued
    <2>11. CASE Elapse
      BY <1>1, <2>11, TimePasses
    <2>12. CASE \/ \E bytes \in ExpressBytes : ArriveExpress(bytes)
                \/ \E bytes \in PreemptableBytes : ArrivePreemptable(bytes)
      BY <1>1, <2>12 DEF ArriveExpress, ArrivePreemptable
    <2>13. QED
      BY <1>1, <2>3, <2>4, <2>5, <2>6, <2>7, <2>8, <2>9, <2>10, <2>11, <2>12
         DEF Next, EventLoop
  <1>2. MacInv /\ [Next]_vars =>
          [mac.onHold /\ mac'.onHold /\ mac.transmitting = "nothing"
             => mac'.transmitting # "preemptable"]_vars
    BY <1>1
  <1>3. QED
    BY <1>2, MacConsistency, PTL DEF Spec, HoldKeepsBack

(***************************************************************************)
(* WaitInv: how long an express frame waits                                *)
(***************************************************************************)

\* A checksum, a part that has just become long enough to be cut, and one that
\* is just too short for it, each with the gap behind it, all fit.
LEMMA WaitBounds ==
  /\ WaitBound \in Nat /\ InterframeGap <= WaitBound
  /\ Checksum * ByteTime + InterframeGap <= WaitBound
  /\ (MinNonFinal + 1) * ByteTime + Checksum * ByteTime + InterframeGap <= WaitBound
  /\ \A bytes \in Int : bytes < MinNonFinal + Checksum + MinFinal =>
       WireTime(bytes) + InterframeGap <= WaitBound
  /\ ByteTime <= MinFinal * ByteTime
  /\ MinFinal * ByteTime - ByteTime + Preamble * ByteTime + InterframeGap <= WaitBound
  <1> DEFINE X == MinNonFinal * ByteTime
             Y == MinFinal * ByteTime
             Z == Checksum * ByteTime
             Q == Preamble * ByteTime
  <1>1. /\ X \in Nat /\ Y \in Nat /\ Z \in Nat /\ Q \in Nat
        /\ X >= ByteTime /\ Y >= ByteTime /\ Z >= ByteTime /\ Q >= Z
    BY Sizes, Scaling
  <1>2. /\ (MinNonFinal + MinFinal) * ByteTime = X + Y
        /\ (MinNonFinal + MinFinal + Checksum) * ByteTime = X + Y + Z
        /\ (MinNonFinal + MinFinal + Checksum + Preamble) * ByteTime = X + Y + Z + Q
        /\ (MinNonFinal + MinFinal + Checksum + Preamble - 1) * ByteTime
             = X + Y + Z + Q - ByteTime
    <2>1. (MinNonFinal + MinFinal) * ByteTime = X + Y
      BY Sizes, Scaling
    <2>2. MinNonFinal + MinFinal \in Int /\ MinNonFinal + MinFinal + Checksum \in Int
          /\ MinNonFinal + MinFinal + Checksum + Preamble \in Int
      BY Sizes
    <2>3. (MinNonFinal + MinFinal + Checksum) * ByteTime = X + Y + Z
      BY <2>1, <2>2, Sizes, Scaling
    <2>4. (MinNonFinal + MinFinal + Checksum + Preamble) * ByteTime = X + Y + Z + Q
      BY <2>2, <2>3, Sizes, Scaling
    <2>5. (MinNonFinal + MinFinal + Checksum + Preamble - 1) * ByteTime
            = X + Y + Z + Q - ByteTime
      BY <2>2, <2>4, Sizes, Scaling
    <2>6. QED
      BY <2>1, <2>3, <2>4, <2>5
  <1>3. WaitBound = X + Y + Z + Q - ByteTime + InterframeGap
    BY <1>2 DEF WaitBound
  <1>4. (MinNonFinal + 1) * ByteTime = X + ByteTime
    BY NonFinalTime
  <1>5. ASSUME NEW bytes \in Int, bytes < MinNonFinal + Checksum + MinFinal
        PROVE  WireTime(bytes) + InterframeGap <= WaitBound
    <2> DEFINE most == MinNonFinal + MinFinal + Checksum - 1
    <2>1. bytes <= most /\ most \in Int
      BY <1>5, Sizes
    <2>2. most * ByteTime = X + Y + Z - ByteTime
      BY <1>2, Sizes, Scaling
    <2> HIDE DEF most
    <2>3. bytes * ByteTime <= X + Y + Z - ByteTime /\ bytes * ByteTime \in Int
      BY <2>1, <2>2, Scaling
    <2>4. WireTime(bytes) = bytes * ByteTime + Q
      BY WireTimes
    <2>5. QED
      BY <1>1, <1>3, <2>3, <2>4, Sizes
  <1> HIDE DEF X, Y, Z, Q
  <1>6. /\ WaitBound \in Nat /\ InterframeGap <= WaitBound
        /\ Z + InterframeGap <= WaitBound
        /\ X + ByteTime + Z + InterframeGap <= WaitBound
        /\ Y - ByteTime + Q + InterframeGap <= WaitBound
    BY <1>1, <1>3, Sizes
  <1>7. QED
    BY <1>1, <1>4, <1>5, <1>6 DEF Y, Z, Q

\* Whenever a part may be cut for a frame that waits, it is soon enough.
LEMMA CutInTime ==
  ASSUME MacInv, WaitInv, SendsPart(mac), ExpressReady, IsPreemptionNowPossible(mac),
         mac.currentExpressFrame = NoFrame
  PROVE  expressWait + Checksum * ByteTime + InterframeGap <= WaitBound
  <1>1. mac \in Mac /\ expressWait \in Nat
    BY DEF MacInv, TypeOK
  <1>2. mac.transmitting = "preemptable" /\ ExpressWaits
    BY DEF SendsPart, ExpressWaits
  <1>3. /\ expressWait <= mac.elapsed
        /\ \/ expressWait = 0
           \/ expressWait + Checksum * ByteTime + InterframeGap <= WaitBound
           \/ mac.recheck # NotScheduled
           \/ expressWait + mac.endTx + InterframeGap <= WaitBound /\ EndIsSettled(mac)
    BY <1>2 DEF WaitInv, PartWaitInv
  <1>4. CASE expressWait = 0
    BY <1>4, WaitBounds, ChecksumTime, Sizes
  <1>5. CASE mac.recheck # NotScheduled
    <2>1. /\ mac.recheck \in Nat
          /\ mac.elapsed + mac.recheck < (MinNonFinal + 1) * ByteTime
      BY <1>1, <1>5, Fields, NotScheduledIsNoTime DEF SendsPart, AwaitsCut
    <2>2. expressWait <= (MinNonFinal + 1) * ByteTime /\ mac.elapsed \in Nat
      BY <1>1, <1>3, <2>1, NonFinalTime, Fields, Sizes
    <2>3. QED
      BY <1>1, <2>2, WaitBounds, NonFinalTime, ChecksumTime, Sizes
  <1>6. CASE expressWait + mac.endTx + InterframeGap <= WaitBound /\ EndIsSettled(mac)
    <2>1. /\ PayloadBytesSent(mac) >= MinNonFinal
          /\ Rest(mac) - PayloadBytesSent(mac) >= MinFinal
          /\ Rest(mac) \in Int /\ PayloadBytesSent(mac) \in Nat /\ mac.elapsed \in Nat
      BY <1>1, <1>2, Fields, NowPossible
    <2>2. mac.elapsed + Checksum * ByteTime <= WireTime(Rest(mac))
      BY <2>1, CutsShorten DEF PayloadBytesSent
    <2>3. Uncut(mac)
      BY <1>1, <1>6, <2>1, Fields, Sizes DEF EndIsSettled
    <2>4. mac.elapsed + mac.endTx = WireTime(Rest(mac)) /\ mac.endTx \in Nat
      BY <2>3 DEF Uncut, PartEnd, SendsPart
    <2>5. Checksum * ByteTime <= mac.endTx
      BY <2>1, <2>2, <2>4, ChecksumTime
    <2>6. QED
      BY <1>1, <1>6, <2>4, <2>5, WaitBounds, ChecksumTime, Sizes
  <1>7. QED
    BY <1>3, <1>4, <1>5, <1>6

\* A part that can be cut neither now nor later is about to end.
LEMMA TooShortToCut ==
  ASSUME NEW m \in Mac, SendsPart(m), ~IsPreemptionNowPossible(m),
         ~IsPreemptionLaterPossible(m), m.currentExpressFrame = NoFrame
  PROVE  m.endTx + InterframeGap <= WaitBound /\ EndIsSettled(m)
  <1> DEFINE sent == PayloadBytesSent(m)
             rest == Rest(m)
  <1>1. /\ m.elapsed \in Nat /\ rest \in Int /\ sent \in Nat
        /\ PayloadBytesRemaining(m) = rest - sent
        /\ m.preempt \in Timer /\ m.endTx \in Nat
    BY Fields DEF SendsPart
  <1>2. sent * ByteTime <= m.elapsed /\ m.elapsed < sent * ByteTime + ByteTime
    BY <1>1, WholeBytes DEF PayloadBytesSent
  <1>3. m.elapsed + m.endTx <= WireTime(rest)
    BY DEF SendsPart, PartEnd
  <1>4. CASE sent >= MinNonFinal
    <2>1. rest - sent < MinFinal
      BY <1>1, <1>4, NowPossible, Sizes DEF SendsPart
    <2>2. EndIsSettled(m)
      BY <1>1, <2>1 DEF EndIsSettled
    <2> DEFINE most == sent + MinFinal
    <2>3. rest + 1 <= most /\ most \in Int
      BY <1>1, <2>1, Sizes
    <2>4. most * ByteTime = sent * ByteTime + MinFinal * ByteTime
      BY <1>1, Scaling, Sizes
    <2> HIDE DEF rest, sent, most
    <2>5. /\ (rest + 1) * ByteTime <= most * ByteTime
          /\ (rest + 1) * ByteTime = rest * ByteTime + ByteTime
      <3>1. rest + 1 \in Int /\ 1 * ByteTime = ByteTime
        BY <1>1, Sizes
      <3>2. (rest + 1) * ByteTime <= most * ByteTime
        BY <2>3, <3>1, Scaling
      <3>3. (rest + 1) * ByteTime = rest * ByteTime + ByteTime
        BY <1>1, <3>1, Scaling
      <3>4. QED
        BY <3>2, <3>3
    <2>6. WireTime(rest) = rest * ByteTime + Preamble * ByteTime
      BY <1>1, WireTimes
    <2>7. /\ rest * ByteTime \in Int /\ sent * ByteTime \in Int
          /\ MinFinal * ByteTime \in Int /\ Preamble * ByteTime \in Int
      BY <1>1, Scaling, Sizes
    <2>8. m.endTx <= MinFinal * ByteTime - ByteTime + Preamble * ByteTime
      BY <1>1, <1>2, <1>3, <2>4, <2>5, <2>6, <2>7, Sizes
    <2>9. QED
      BY <1>1, <2>2, <2>7, <2>8, WaitBounds, Sizes
  <1>5. CASE sent < MinNonFinal
    <2>1. rest < MinNonFinal + Checksum + MinFinal
      BY <1>1, <1>5, Sizes DEF IsPreemptionLaterPossible
    <2>2. m.preempt = NotScheduled
      <3>1. m.preempt # NotScheduled => rest >= MinNonFinal + Checksum + MinFinal
        BY DEF SendsPart, AwaitsCut
      <3>2. QED
        BY <1>1, <2>1, <3>1, Sizes
    <2>3. Uncut(m)
      <3>1. SUFFICES ASSUME NEW cut \in Nat, CutAfter(m, cut)
                     PROVE  FALSE
        BY Fields DEF SendsPart
      <3> DEFINE end == cut * ByteTime
                 checksum == Checksum * ByteTime
      <3>2. /\ cut >= MinNonFinal /\ m.endTx <= checksum
            /\ end <= PartEnd(m) - checksum
        BY <3>1 DEF CutAfter
      <3>3. cut * ByteTime <= m.elapsed
        <4>1. end \in Int /\ checksum \in Nat
          BY <3>1, ChecksumTime, Scaling
        <4> HIDE DEF end, checksum
        <4>2. end <= m.elapsed
          BY <1>1, <3>2, <4>1 DEF PartEnd
        <4>3. QED
          BY <4>2 DEF end
      <3>4. sent + 1 <= cut
        BY <1>1, <1>5, <3>1, <3>2, Sizes
      <3> HIDE DEF sent
      <3>5. (sent + 1) * ByteTime <= cut * ByteTime
        BY <1>1, <3>1, <3>4, Scaling
      <3>6. (sent + 1) * ByteTime = sent * ByteTime + ByteTime
        BY <1>1, Scaling, Sizes
      <3>7. cut * ByteTime \in Int /\ sent * ByteTime \in Int
        BY <1>1, <3>1, Scaling
      <3>8. QED
        BY <1>1, <1>2, <3>3, <3>5, <3>6, <3>7, Sizes
    <2>4. EndIsSettled(m)
      BY <2>2, <2>3 DEF EndIsSettled
    <2>5. WireTime(rest) + InterframeGap <= WaitBound
      BY <1>1, <2>1, WaitBounds
    <2>6. WireTime(rest) \in Int
      BY <1>1, WireTimes
    <2>7. QED
      BY <1>1, <1>3, <2>4, <2>5, <2>6, WaitBounds, Sizes
  <1>6. QED
    BY <1>1, <1>4, <1>5, Sizes

LEMMA WaitingStays ==
  ASSUME UNCHANGED <<expressQueue, enableHoldAndRelease, expressWindow, untilTick>>,
         mac'.currentExpressFrame = mac.currentExpressFrame,
         mac'.transmitting = "express" <=> mac.transmitting = "express"
  PROVE  ExpressWaits' <=> ExpressWaits
  BY ReadyStays DEF ExpressWaits

LEMMA InitWait == Init => WaitInv
  <1> SUFFICES ASSUME Init
               PROVE  WaitInv
    OBVIOUS
  <1>1. /\ expressWait = 0 /\ mac.transmitState = "TX_IDLE"
        /\ mac.transmitting = "nothing"
    BY DEF Init
  <1>2. ExpressWaitIsBounded
    BY <1>1, WaitBounds DEF ExpressWaitIsBounded, WaitBound
  <1>3. QED
    BY <1>1, <1>2 DEF WaitInv, PartWaitInv, GapWaitInv, PastWaitInv, KeptExpressInv

\* The frame that is next has not waited: its wait begins now.
LEMMA ExpressEndsWait ==
  ASSUME MacInv, WaitInv, HandleEndTxPeriodExpress
  PROVE  WaitInv'
  <1>1. /\ SendsExpress(mac)
        /\ InGap(mac') /\ mac'.endIFG = InterframeGap
    BY ExpressEnds
  <1>2. mac.endTx = 0 /\ expressWait' = expressWait
    BY DEF HandleEndTxPeriodExpress
  <1>3. expressWait = 0
    <2>1. mac.curTxFrame \in ExpressFrames
      BY <1>1 DEF MacInv, FramesInv, SendsExpress
    <2>2. mac.curTxFrame.bytes \in Nat /\ mac.curTxFrame.bytes >= 1
      BY <2>1, Frames DEF Frame
    <2>3. WireTime(mac.curTxFrame.bytes) \in Nat /\ WireTime(mac.curTxFrame.bytes) >= 1
      BY <2>2, WireTimes
    <2>4. mac.transmitting = "express" /\ ~ExpressWaits
      BY <1>1 DEF SendsExpress, ExpressWaits
    <2>5. QED
      BY <1>2, <2>3, <2>4 DEF WaitInv, PastWaitInv
  <1>4. mac'.transmitting = "nothing" /\ mac'.transmitState = "WAIT_IFG"
    BY <1>1 DEF InGap
  <1>5. ExpressWaitIsBounded'
    BY <1>2 DEF WaitInv, ExpressWaitIsBounded
  <1>6. GapWaitInv'
    BY <1>1, <1>2, <1>3, WaitBounds, Sizes DEF GapWaitInv
  <1>7. QED
    BY <1>2, <1>3, <1>4, <1>5, <1>6
       DEF WaitInv, PartWaitInv, PastWaitInv, KeptExpressInv

LEMMA PartEndsWait ==
  ASSUME MacInv, WaitInv, HandleEndTxPeriodPreemptable
  PROVE  WaitInv'
  <1>1. /\ SendsPart(mac) /\ mac.transmitting = "preemptable"
        /\ InGap(mac') /\ mac'.endIFG = InterframeGap
        /\ mac'.currentExpressFrame = mac.currentExpressFrame
    BY PartEnds DEF SendsPart
  <1>2. /\ mac.endTx = 0 /\ expressWait' = expressWait
        /\ UNCHANGED <<expressQueue, enableHoldAndRelease, expressWindow, untilTick>>
    BY DEF HandleEndTxPeriodPreemptable, queueVars, gateVars
  <1>3. mac \in Mac /\ expressWait \in Nat
    BY DEF MacInv, TypeOK
  <1>4. mac'.transmitting = "nothing" /\ mac'.transmitState = "WAIT_IFG"
    BY <1>1 DEF InGap
  <1>5. ExpressWaits' <=> ExpressWaits
    BY <1>1, <1>2, <1>4, WaitingStays
  <1>6. ExpressWaits => expressWait + InterframeGap <= WaitBound
    <2>1. SUFFICES ASSUME ExpressWaits
                   PROVE  expressWait + InterframeGap <= WaitBound
      OBVIOUS
    <2>2. mac.recheck = NotScheduled
      <3>1. mac.recheck \in Nat => mac.recheck < mac.endTx
        BY <1>1, <1>3, TimersComeFirst DEF SendsPart
      <3>2. QED
        BY <1>2, <1>3, <3>1, Fields, NotScheduledIsNoTime
    <2>3. \/ expressWait = 0
          \/ expressWait + Checksum * ByteTime + InterframeGap <= WaitBound
          \/ expressWait + 0 + InterframeGap <= WaitBound
      BY <1>1, <1>2, <2>1, <2>2 DEF WaitInv, PartWaitInv
    <2>4. QED
      BY <1>3, <2>3, WaitBounds, ChecksumTime, Sizes
  <1>7. ExpressWaitIsBounded'
    BY <1>2 DEF WaitInv, ExpressWaitIsBounded
  <1>8. GapWaitInv'
    BY <1>1, <1>2, <1>5, <1>6, Sizes DEF GapWaitInv
  <1>9. PastWaitInv'
    BY <1>1, <1>2, <1>4, <1>5 DEF WaitInv, PastWaitInv
  <1>10. QED
    BY <1>4, <1>7, <1>8, <1>9 DEF WaitInv, PartWaitInv, KeptExpressInv

LEMMA GapEndsWait ==
  ASSUME MacInv, WaitInv, HandleEndIFGPeriod
  PROVE  WaitInv'
  <1>1. InGap(mac) /\ mac.transmitting = "nothing"
    BY GapEnds DEF InGap
  <1>2. /\ expressWait' = expressWait
        /\ UNCHANGED <<expressQueue, enableHoldAndRelease, expressWindow, untilTick>>
    BY DEF HandleEndIFGPeriod, queueVars, gateVars
  <1>3. ExpressReady' <=> ExpressReady
    BY <1>2, ReadyStays
  <1>4. ExpressWaitIsBounded'
    BY <1>2 DEF WaitInv, ExpressWaitIsBounded
  <1>5. CASE /\ SendsExpress(mac') /\ mac'.endTx = WireTime(mac'.curTxFrame.bytes)
    BY <1>4, <1>5 DEF WaitInv, PartWaitInv, GapWaitInv, PastWaitInv, KeptExpressInv,
                      SendsExpress, ExpressWaits
  <1>6. CASE ExpressReady /\ Idle(mac')
    BY <1>3, <1>4, <1>6
       DEF WaitInv, PartWaitInv, GapWaitInv, PastWaitInv, KeptExpressInv, Idle, ExpressWaits
  <1>7. CASE /\ ~ExpressReady /\ mac.currentExpressFrame = NoFrame
             /\ Idle(mac') \/ (SendsPart(mac') /\ mac'.currentExpressFrame = NoFrame)
    <2>1. /\ mac'.currentExpressFrame = NoFrame /\ mac'.transmitting # "express"
          /\ mac'.transmitState # "WAIT_IFG"
      BY <1>7 DEF Idle, SendsPart
    <2>2. ~ExpressWaits /\ ~ExpressWaits'
      BY <1>3, <1>7, <2>1 DEF ExpressWaits
    <2>3. PastWaitInv'
      BY <1>1, <1>2, <2>1, <2>2 DEF WaitInv, PastWaitInv
    <2>4. QED
      BY <1>4, <2>1, <2>2, <2>3 DEF WaitInv, PartWaitInv, GapWaitInv, KeptExpressInv
  <1>8. QED
    BY <1>5, <1>6, <1>7, GapEnds

LEMMA RecheckIsDueWait ==
  ASSUME MacInv, WaitInv, Recheck
  PROVE  WaitInv'
  <1>1. /\ SendsPart(mac) /\ mac.transmitting = "preemptable"
        /\ mac.elapsed < (MinNonFinal + 1) * ByteTime
        /\ mac' = [mac EXCEPT !.recheck = NotScheduled,
                              !.requestPacket = mac.requestPacket \/ ExpressReady]
    BY RecheckIsDue DEF SendsPart
  <1>2. mac \in Mac /\ expressWait \in Nat
    BY DEF MacInv, TypeOK
  <1>3. /\ mac'.transmitState = mac.transmitState /\ mac'.transmitting = mac.transmitting
        /\ mac'.currentExpressFrame = mac.currentExpressFrame
        /\ mac'.elapsed = mac.elapsed /\ mac'.endTx = mac.endTx
        /\ mac'.endIFG = mac.endIFG
        /\ mac'.requestPacket <=> (mac.requestPacket \/ ExpressReady)
    BY <1>1, <1>2 DEF Mac
  <1>4. EndIsSettled(mac) => EndIsSettled(mac')
    BY <1>1, <1>2
       DEF EndIsSettled, Uncut, PartEnd, Rest, PayloadBytesRemaining, PayloadBytesSent, Mac
  <1>5. /\ expressWait' = expressWait /\ selectionPacketEnqueued' = selectionPacketEnqueued
        /\ UNCHANGED <<expressQueue, enableHoldAndRelease, expressWindow, untilTick>>
    BY DEF Recheck, queueVars, gateVars, selectionVars
  <1>6. ExpressWaits' <=> ExpressWaits
    BY <1>3, <1>5, WaitingStays
  <1>7. PartWaitInv'
    <2>1. SUFFICES ASSUME ExpressWaits
                   PROVE  PartWaitInv'
      BY <1>6 DEF PartWaitInv
    <2>2. /\ expressWait <= mac.elapsed
          /\ \/ mac.currentExpressFrame = NoFrame /\ expressWait = 0 /\ selectionPacketEnqueued
             \/ /\ mac.requestPacket
                /\ expressWait + Checksum * ByteTime + InterframeGap <= WaitBound
             \/ mac.recheck # NotScheduled
             \/ expressWait + mac.endTx + InterframeGap <= WaitBound /\ EndIsSettled(mac)
          /\ mac.currentExpressFrame # NoFrame
               => expressWait + mac.endTx + InterframeGap <= WaitBound
      BY <1>1, <2>1 DEF WaitInv, PartWaitInv
    <2>3. expressWait + Checksum * ByteTime + InterframeGap <= WaitBound
      <3>1. mac.elapsed \in Nat /\ expressWait <= (MinNonFinal + 1) * ByteTime
        BY <1>1, <1>2, <2>2, NonFinalTime, Fields, Sizes
      <3>2. QED
        BY <1>2, <3>1, WaitBounds, NonFinalTime, ChecksumTime, Sizes
    <2>4. \/ mac.currentExpressFrame = NoFrame /\ ExpressReady
          \/ mac.currentExpressFrame # NoFrame /\ EndIsSettled(mac)
      BY <2>1 DEF ExpressWaits, EndIsSettled
    <2>5. QED
      BY <1>3, <1>4, <1>5, <2>2, <2>3, <2>4 DEF PartWaitInv
  <1>8. ExpressWaitIsBounded' /\ GapWaitInv' /\ PastWaitInv' /\ KeptExpressInv'
    BY <1>1, <1>3, <1>5, <1>6
       DEF WaitInv, ExpressWaitIsBounded, GapWaitInv, PastWaitInv, KeptExpressInv, SendsPart
  <1>9. QED
    BY <1>7, <1>8 DEF WaitInv

LEMMA PreemptionIsDueWait ==
  ASSUME MacInv, WaitInv, PreemptCurrentFrameDue
  PROVE  WaitInv'
  <1>1. /\ SendsPart(mac) /\ mac.transmitting = "preemptable"
        /\ mac.elapsed < (MinNonFinal + 1) * ByteTime
        /\ mac' \in Mac /\ SendsPart(mac') /\ mac'.transmitting = "preemptable"
        /\ mac'.endTx = Checksum * ByteTime
        /\ mac'.elapsed = mac.elapsed /\ mac'.recheck = mac.recheck
        /\ mac'.currentExpressFrame = mac.currentExpressFrame
        /\ mac'.requestPacket = mac.requestPacket
        /\ SameRest
    BY PreemptionIsDue DEF SendsPart
  <1>2. mac \in Mac /\ expressWait \in Nat /\ mac.preempt # NotScheduled
    BY DEF MacInv, TypeOK, PreemptCurrentFrameDue, NotScheduled
  <1>3. /\ expressWait' = expressWait /\ selectionPacketEnqueued' = selectionPacketEnqueued
        /\ UNCHANGED <<expressQueue, enableHoldAndRelease, expressWindow, untilTick>>
    BY DEF PreemptCurrentFrameDue, queueVars, gateVars, selectionVars
  <1>4. ExpressWaits' <=> ExpressWaits
    BY <1>1, <1>3, WaitingStays
  <1>5. PartWaitInv'
    <2>1. SUFFICES ASSUME ExpressWaits
                   PROVE  PartWaitInv'
      BY <1>4 DEF PartWaitInv
    <2>2. /\ expressWait <= mac.elapsed
          /\ \/ mac.currentExpressFrame = NoFrame /\ expressWait = 0 /\ selectionPacketEnqueued
             \/ /\ mac.requestPacket
                /\ expressWait + Checksum * ByteTime + InterframeGap <= WaitBound
             \/ mac.recheck # NotScheduled
             \/ EndIsSettled(mac)
      BY <1>1, <2>1 DEF WaitInv, PartWaitInv
    <2>3. expressWait + Checksum * ByteTime + InterframeGap <= WaitBound
      <3>1. mac.elapsed \in Nat /\ expressWait <= (MinNonFinal + 1) * ByteTime
        BY <1>1, <1>2, <2>2, NonFinalTime, Fields, Sizes
      <3>2. QED
        BY <1>2, <3>1, WaitBounds, NonFinalTime, ChecksumTime, Sizes
    <2>4. EndIsSettled(mac) => EndIsSettled(mac')
      BY <1>1, <1>2 DEF EndIsSettled, PayloadBytesRemaining, PayloadBytesSent, SameRest
    <2>5. QED
      BY <1>1, <1>3, <2>2, <2>3, <2>4 DEF PartWaitInv
  <1>6. ExpressWaitIsBounded' /\ GapWaitInv' /\ PastWaitInv' /\ KeptExpressInv'
    BY <1>1, <1>3, <1>4
       DEF WaitInv, ExpressWaitIsBounded, GapWaitInv, PastWaitInv, KeptExpressInv, SendsPart
  <1>7. QED
    BY <1>5, <1>6 DEF WaitInv

\* A hold begins when no express frame can be sent.
LEMMA HoldBeginsWait ==
  ASSUME MacInv, WaitInv, HoldRequest
  PROVE  WaitInv'
  <1>1. /\ enableHoldAndRelease /\ ~expressWindow /\ ~ExpressReady
        /\ mac'.requestPacket = mac.requestPacket
        /\ mac'.currentExpressFrame = mac.currentExpressFrame
    BY HoldBegins
  <1>2. /\ expressWait' = expressWait
        /\ UNCHANGED <<expressQueue, enableHoldAndRelease, expressWindow, untilTick>>
    BY DEF HoldRequest, queueVars
  <1>3. ~ExpressReady'
    BY <1>1, <1>2, ReadyStays
  <1>4. ExpressWaitIsBounded'
    BY <1>2 DEF WaitInv, ExpressWaitIsBounded
  <1>5. CASE SendsPart(mac) /\ SendsPart(mac')
    <2>1. mac.currentExpressFrame = NoFrame
      BY <1>1, <1>5 DEF WaitInv, KeptExpressInv, SendsPart
    <2>2. ~ExpressWaits /\ ~ExpressWaits'
      BY <1>1, <1>3, <2>1 DEF ExpressWaits
    <2>3. PastWaitInv'
      BY <1>2, <1>5, <2>2 DEF WaitInv, PastWaitInv, SendsPart
    <2>4. QED
      BY <1>1, <1>4, <1>5, <2>1, <2>2, <2>3
         DEF WaitInv, PartWaitInv, GapWaitInv, KeptExpressInv, SendsPart
  <1>6. CASE Idle(mac) /\ Idle(mac')
    <2>1. ~ExpressWaits /\ ~ExpressWaits'
      BY <1>1, <1>3, <1>6 DEF ExpressWaits, Idle
    <2>2. PastWaitInv'
      BY <1>2, <1>6, <2>1 DEF WaitInv, PastWaitInv, Idle
    <2>3. QED
      BY <1>4, <1>6, <2>1, <2>2 DEF WaitInv, PartWaitInv, GapWaitInv, KeptExpressInv, Idle
  <1>7. CASE InGap(mac) /\ InGap(mac') /\ mac'.endIFG = mac.endIFG
    <2>1. ExpressWaits' <=> ExpressWaits
      BY <1>1, <1>2, <1>7, WaitingStays DEF InGap
    <2>2. PastWaitInv' /\ GapWaitInv'
      BY <1>2, <1>7, <2>1 DEF WaitInv, PastWaitInv, GapWaitInv, InGap
    <2>3. QED
      BY <1>4, <1>7, <2>2 DEF WaitInv, PartWaitInv, KeptExpressInv, InGap
  <1>8. CASE /\ SendsExpress(mac) /\ SendsExpress(mac')
             /\ mac'.curTxFrame = mac.curTxFrame /\ mac'.endTx = mac.endTx
    BY <1>2, <1>4, <1>8
       DEF WaitInv, PartWaitInv, GapWaitInv, PastWaitInv, KeptExpressInv, SendsExpress,
           ExpressWaits
  <1>9. QED
    BY <1>5, <1>6, <1>7, <1>8, HoldBegins

\* The frame at the head begins to wait when its window opens.
LEMMA TickOpensWait ==
  ASSUME MacInv, WaitInv, TickOpensExpress
  PROVE  WaitInv'
  <1>1. /\ enableHoldAndRelease /\ untilTick = 0 /\ ~expressWindow
        /\ expressWindow' = TRUE
        /\ UNCHANGED <<mac, enableHoldAndRelease, expressWait, expressQueue>>
        /\ selectionPacketEnqueued' = (selectionPacketEnqueued \/ ExpressReady')
    BY DEF TickOpensExpress, queueVars
  <1>2. mac \in Mac /\ expressWait \in Nat
    BY DEF MacInv, TypeOK
  <1>3. ~ExpressReady
    BY <1>1 DEF ExpressReady
  <1>4. untilTick # PreemptableWindow
    BY <1>1, Windows, Sizes
  <1>5. mac.transmitting = "preemptable" => mac.currentExpressFrame = NoFrame
    BY <1>1 DEF WaitInv, KeptExpressInv
  <1>6. expressWait = 0 \/ mac.transmitting = "express" \/ ExpressWaits
    BY <1>1, <1>4 DEF WaitInv, PastWaitInv
  <1>7. ExpressWaitIsBounded' /\ KeptExpressInv'
    BY <1>1 DEF WaitInv, ExpressWaitIsBounded, KeptExpressInv
  <1>8. PastWaitInv'
    <2>1. ExpressWaits => ExpressWaits'
      BY <1>1, <1>3 DEF ExpressWaits
    <2>2. QED
      BY <1>1, <1>6, <2>1 DEF WaitInv, PastWaitInv, ExpressWaits
  <1>9. PartWaitInv'
    <2>1. SUFFICES ASSUME ExpressWaits', mac.transmitting = "preemptable"
                   PROVE  PartWaitInv'
      BY <1>1 DEF PartWaitInv
    <2>2. mac.currentExpressFrame = NoFrame /\ ExpressReady' /\ expressWait = 0
      BY <1>1, <1>3, <1>5, <1>6, <2>1 DEF ExpressWaits
    <2>3. mac.elapsed \in Nat
      BY <1>2, Fields
    <2>4. selectionPacketEnqueued' = TRUE /\ expressWait' = 0 /\ mac' = mac
      BY <1>1, <2>2
    <2>5. expressWait' <= mac.elapsed
      BY <2>3, <2>4
    <2>6. QED
      BY <2>2, <2>4, <2>5 DEF PartWaitInv
  <1>10. GapWaitInv'
    <2>1. SUFFICES ASSUME mac.transmitState = "WAIT_IFG"
                   PROVE  /\ mac.endIFG <= InterframeGap
                          /\ expressWait + mac.endIFG <= WaitBound
      BY <1>1 DEF GapWaitInv
    <2>2. InGap(mac)
      BY <1>2, <2>1, Stages DEF MacInv
    <2>3. mac.endIFG <= InterframeGap /\ mac.endIFG \in Nat
      BY <2>1, <2>2 DEF WaitInv, GapWaitInv, InGap
    <2>4. CASE expressWait = 0
      BY <2>3, <2>4, WaitBounds, Sizes
    <2>5. CASE ExpressWaits
      BY <2>1, <2>3, <2>5 DEF WaitInv, GapWaitInv
    <2>6. QED
      BY <1>6, <2>2, <2>4, <2>5 DEF InGap
  <1>11. QED
    BY <1>7, <1>8, <1>9, <1>10 DEF WaitInv

LEMMA TickClosesWait ==
  ASSUME MacInv, WaitInv, TickClosesExpress
  PROVE  WaitInv'
  <1>1. /\ ~ExpressReady /\ ~SendsPart(mac)
        /\ mac'.currentExpressFrame = mac.currentExpressFrame
    BY ReleaseFinds
  <1>2. /\ enableHoldAndRelease /\ ~expressWindow' /\ untilTick' = PreemptableWindow
        /\ UNCHANGED <<enableHoldAndRelease, expressWait>>
    BY DEF TickClosesExpress
  <1>3. ~ExpressReady'
    BY <1>2 DEF ExpressReady
  <1>4. ExpressWaitIsBounded'
    BY <1>2 DEF WaitInv, ExpressWaitIsBounded
  <1>5. CASE /\ SendsExpress(mac) /\ SendsExpress(mac')
             /\ mac'.curTxFrame = mac.curTxFrame /\ mac'.endTx = mac.endTx
    BY <1>2, <1>4, <1>5
       DEF WaitInv, PartWaitInv, GapWaitInv, PastWaitInv, KeptExpressInv, SendsExpress,
           ExpressWaits
  <1>6. CASE InGap(mac) /\ InGap(mac') /\ mac'.endIFG = mac.endIFG
    <2>1. ExpressWaits' <=> ExpressWaits
      BY <1>1, <1>3, <1>6 DEF ExpressWaits, InGap
    <2>2. PastWaitInv' /\ GapWaitInv'
      BY <1>2, <1>6, <2>1 DEF WaitInv, PastWaitInv, GapWaitInv, InGap
    <2>3. QED
      BY <1>4, <1>6, <2>2 DEF WaitInv, PartWaitInv, KeptExpressInv, InGap
  <1>7. CASE Idle(mac) /\ (SendsPart(mac') \/ Idle(mac'))
    <2>1. /\ mac'.currentExpressFrame = NoFrame /\ mac'.transmitting # "express"
          /\ mac'.transmitState # "WAIT_IFG"
      BY <1>1, <1>7 DEF Idle, SendsPart
    <2>2. ~ExpressWaits'
      BY <1>3, <2>1 DEF ExpressWaits
    <2>3. PastWaitInv'
      BY <1>2, <2>1 DEF PastWaitInv
    <2>4. QED
      BY <1>4, <2>1, <2>2, <2>3 DEF WaitInv, PartWaitInv, GapWaitInv, KeptExpressInv
  <1>8. QED
    BY <1>5, <1>6, <1>7, ReleaseFinds

\* The request of m, the MAC without its request, has brought it a frame.
LEMMA SelectionWait ==
  ASSUME MacInv, WaitInv, NEW m \in Mac, ~m.failed, ~m.requestPacket,
         m.currentExpressFrame = mac.currentExpressFrame,
         m.elapsed = mac.elapsed,
         \/ /\ Idle(mac) /\ Idle(m)
            /\ ~ExpressReady /\ ~m.onHold => m.currentPreemptableFrame = NoFrame
         \/ /\ SendsPart(mac) /\ IsPreemptionNowPossible(mac)
            /\ SendsPart(m) /\ IsPreemptionNowPossible(m) /\ ExpressReady,
         SelectPacket(m), UNCHANGED gateVars
  PROVE  WaitInv'
  <1>1. UNCHANGED <<enableHoldAndRelease, expressWindow, untilTick>>
    BY DEF gateVars
  <1>2. expressWait \in Nat /\ mac \in Mac
    BY DEF MacInv, TypeOK
  <1>3. CASE /\ Idle(m) /\ SendsExpress(mac')
             /\ mac'.endTx = WireTime(mac'.curTxFrame.bytes)
             /\ expressWait' = expressWait
    BY <1>3 DEF WaitInv, ExpressWaitIsBounded, PartWaitInv, GapWaitInv, PastWaitInv,
                KeptExpressInv, SendsExpress, ExpressWaits
  <1>4. CASE /\ ExpressReady /\ SendsPart(m) /\ SendsPart(mac')
             /\ mac'.endTx = Checksum * ByteTime
             /\ mac'.elapsed = m.elapsed
             /\ mac'.currentExpressFrame \in ExpressFrames
             /\ expressWait' = IF m.currentExpressFrame = NoFrame
                                 THEN expressWait ELSE 0
    <2>1. SendsPart(mac) /\ IsPreemptionNowPossible(mac)
      BY <1>4 DEF Idle, SendsPart
    <2>2. mac'.currentExpressFrame # NoFrame /\ mac'.transmitting = "preemptable"
      BY <1>4, Frames DEF SendsPart
    <2>3. expressWait' + Checksum * ByteTime + InterframeGap <= WaitBound
      <3>1. CASE mac.currentExpressFrame = NoFrame
        BY <1>4, <2>1, <3>1, CutInTime
      <3>2. CASE mac.currentExpressFrame # NoFrame
        BY <1>4, <3>2, WaitBounds, ChecksumTime, Sizes
      <3>3. QED
        BY <3>1, <3>2
    <2>4. expressWait' <= mac'.elapsed
      <3>1. CASE mac.currentExpressFrame = NoFrame
        BY <1>4, <2>1, <3>1 DEF WaitInv, PartWaitInv, ExpressWaits, SendsPart
      <3>2. CASE mac.currentExpressFrame # NoFrame
        BY <1>2, <1>4, <3>2, Fields
      <3>3. QED
        BY <3>1, <3>2
    <2>5. PartWaitInv'
      BY <1>4, <2>2, <2>3, <2>4 DEF PartWaitInv, EndIsSettled
    <2>6. expressWait' \in {expressWait, 0}
      BY <1>4
    <2>7. ExpressWaitIsBounded'
      BY <1>2, <2>6, WaitBounds DEF WaitInv, ExpressWaitIsBounded, WaitBound
    <2>8. KeptExpressInv'
      BY <1>1, <1>4 DEF KeptExpressInv, ExpressReady
    <2>9. GapWaitInv' /\ PastWaitInv'
      BY <1>4, <2>2 DEF GapWaitInv, PastWaitInv, ExpressWaits, SendsPart
    <2>10. QED
      BY <2>5, <2>7, <2>8, <2>9 DEF WaitInv
  <1>5. CASE /\ ~ExpressReady /\ Idle(m) /\ expressQueue' = expressQueue
             /\ SendsPart(mac') /\ mac'.currentExpressFrame = NoFrame
             /\ expressWait' = expressWait
    <2>1. ~ExpressReady'
      BY <1>1, <1>5, ReadyStays
    <2>2. Idle(mac)
      BY <1>5 DEF Idle, SendsPart
    <2>3. ~ExpressWaits /\ ~ExpressWaits'
      BY <1>5, <2>1, <2>2 DEF ExpressWaits, Idle
    <2>4. PastWaitInv'
      BY <1>1, <1>5, <2>2, <2>3 DEF WaitInv, PastWaitInv, Idle, SendsPart
    <2>5. QED
      BY <1>5, <2>3, <2>4
         DEF WaitInv, ExpressWaitIsBounded, PartWaitInv, GapWaitInv, KeptExpressInv, SendsPart
  <1>6. QED
    <2>1. \/ /\ Idle(m) /\ SendsExpress(mac')
             /\ mac'.endTx = WireTime(mac'.curTxFrame.bytes)
             /\ expressWait' = expressWait
          \/ /\ ExpressReady /\ SendsPart(m) /\ SendsPart(mac')
             /\ mac'.endTx = Checksum * ByteTime
             /\ mac'.elapsed = m.elapsed
             /\ mac'.currentExpressFrame \in ExpressFrames
             /\ expressWait' = IF m.currentExpressFrame = NoFrame
                                 THEN expressWait ELSE 0
          \/ /\ ~ExpressReady /\ Idle(m) /\ expressQueue' = expressQueue
             /\ SendsPart(mac') /\ mac'.currentExpressFrame = NoFrame
             /\ expressWait' = expressWait
      BY PacketSelected
    <2>2. QED
      BY <1>3, <1>4, <1>5, <2>1

LEMMA RequestHandledWait ==
  ASSUME MacInv, WaitInv, HandleRequestPacket
  PROVE  WaitInv'
  <1> DEFINE m == [mac EXCEPT !.requestPacket = FALSE]
  <1>1. /\ mac.requestPacket /\ mac \in Mac
        /\ UNCHANGED gateVars
        /\ LET n == FailUnless(~packetRequested, m)
           IN  \/ SelectPacket(n)
               \/ /\ NothingReady /\ mac' = n
                  /\ UNCHANGED <<queueVars, expressWait>>
    BY DEF HandleRequestPacket, MacInv, TypeOK
  <1>2. /\ FailUnless(~packetRequested, m) = m
        /\ m \in Mac /\ ~m.failed /\ ~m.requestPacket
        /\ m.currentExpressFrame = mac.currentExpressFrame
        /\ m.elapsed = mac.elapsed
        /\ \/ /\ Idle(mac) /\ Idle(m)
              /\ ~ExpressReady /\ ~m.onHold => m.currentPreemptableFrame = NoFrame
           \/ SendsPart(mac) /\ SendsPart(m) /\ IsPreemptionNowPossible(m) /\ ExpressReady
    BY <1>1, RequestIsAlone
  <1>3. SendsPart(mac) => IsPreemptionNowPossible(mac)
    BY <1>1, Stages DEF MacInv, SendsPart
  <1> HIDE DEF m
  <1>4. CASE SelectPacket(m)
    BY <1>1, <1>2, <1>3, <1>4, SelectionWait
  <1>5. CASE NothingReady /\ mac' = m /\ UNCHANGED <<queueVars, expressWait>>
    <2>1. ~ExpressReady /\ Idle(mac) /\ Idle(m)
      BY <1>2, <1>5 DEF NothingReady
    <2>2. ~ExpressReady'
      BY <1>1, <1>5, <2>1, ReadyStays DEF queueVars, gateVars
    <2>3. ~ExpressWaits /\ ~ExpressWaits'
      BY <1>5, <2>1, <2>2 DEF ExpressWaits, Idle
    <2>4. PastWaitInv'
      BY <1>1, <1>5, <2>1, <2>3 DEF WaitInv, PastWaitInv, Idle, gateVars, queueVars
    <2>5. QED
      BY <1>5, <2>1, <2>3, <2>4
         DEF WaitInv, ExpressWaitIsBounded, PartWaitInv, GapWaitInv, KeptExpressInv, Idle
  <1>6. QED
    BY <1>1, <1>2, <1>4, <1>5

LEMMA NotificationHandledWait ==
  ASSUME MacInv, WaitInv, HandlePacketEnqueued
  PROVE  WaitInv'
  <1>1. /\ mac \in Mac /\ ~mac.failed /\ expressWait \in Nat
        /\ selectionPacketEnqueued' = FALSE /\ UNCHANGED gateVars
        /\ UNCHANGED <<enableHoldAndRelease, expressWindow, untilTick>>
    BY DEF MacInv, TypeOK, HandlePacketEnqueued, gateVars
  <1>2. CASE packetRequested /\ SelectPacket(mac)
    <2>1. Idle(mac) /\ ~mac.requestPacket
      BY <1>2 DEF MacInv, StageInv
    <2>2. ~ExpressReady /\ ~mac.onHold => mac.currentPreemptableFrame = NoFrame
      BY <2>1 DEF MacInv, KeptInv, Idle
    <2>3. QED
      BY <1>1, <1>2, <2>1, <2>2, SelectionWait
  <1>3. CASE packetRequested /\ NothingReady /\ UNCHANGED <<mac, queueVars, expressWait>>
    <2>1. Idle(mac) /\ ~ExpressReady
      BY <1>3 DEF MacInv, StageInv, NothingReady
    <2>2. ~ExpressReady'
      BY <1>1, <1>3, <2>1, ReadyStays DEF queueVars
    <2>3. ~ExpressWaits /\ ~ExpressWaits'
      BY <1>3, <2>1, <2>2 DEF ExpressWaits, Idle
    <2>4. PastWaitInv'
      BY <1>1, <1>3, <2>3 DEF WaitInv, PastWaitInv, queueVars
    <2>5. QED
      BY <1>3, <2>1, <2>3, <2>4
         DEF WaitInv, ExpressWaitIsBounded, PartWaitInv, GapWaitInv, KeptExpressInv, Idle
  <1>4. CASE /\ ~packetRequested /\ mac' = PacketEnqueued(mac)
             /\ UNCHANGED <<queueVars, expressWait>>
    <2>1. /\ mac'.transmitState = mac.transmitState
          /\ mac'.transmitting = mac.transmitting
          /\ mac'.curTxFrame = mac.curTxFrame
          /\ mac'.currentExpressFrame = mac.currentExpressFrame
          /\ mac'.elapsed = mac.elapsed /\ mac'.endTx = mac.endTx
          /\ mac'.endIFG = mac.endIFG
      <3>1. CASE mac' = mac
        BY <3>1
      <3>2. CASE mac' = [mac EXCEPT !.requestPacket = TRUE]
        BY <1>1, <3>2 DEF Mac
      <3>3. CASE mac' = [mac EXCEPT !.recheck = mac'.recheck]
        BY <1>1, <3>3 DEF Mac
      <3>4. QED
        BY <1>4, <3>1, <3>2, <3>3, MacIsTold
    <2>2. ExpressWaits' <=> ExpressWaits
      BY <1>1, <1>4, <2>1, WaitingStays DEF queueVars
    <2>3. ExpressWaitIsBounded' /\ GapWaitInv' /\ PastWaitInv' /\ KeptExpressInv'
      BY <1>1, <1>4, <2>1, <2>2
         DEF WaitInv, ExpressWaitIsBounded, GapWaitInv, PastWaitInv, KeptExpressInv,
             queueVars
    <2>4. PartWaitInv'
      <3>1. SUFFICES ASSUME ExpressWaits, mac.transmitting = "preemptable"
                     PROVE  PartWaitInv'
        BY <2>1, <2>2 DEF PartWaitInv
      <3>2. /\ expressWait <= mac.elapsed
            /\ \/ mac.currentExpressFrame = NoFrame /\ expressWait = 0
               \/ /\ mac.requestPacket
                  /\ expressWait + Checksum * ByteTime + InterframeGap <= WaitBound
               \/ mac.recheck # NotScheduled
               \/ expressWait + mac.endTx + InterframeGap <= WaitBound /\ EndIsSettled(mac)
            /\ mac.currentExpressFrame # NoFrame
                 => expressWait + mac.endTx + InterframeGap <= WaitBound
        BY <3>1 DEF WaitInv, PartWaitInv
      <3>3. CASE mac' = mac /\ ~ExpressReady
        <4>1. mac.currentExpressFrame # NoFrame
          BY <3>1, <3>3 DEF ExpressWaits
        <4>2. QED
          BY <1>4, <3>2, <3>3, <4>1 DEF PartWaitInv
      <3>4. CASE /\ SendsPart(mac) /\ ~IsPreemptionNowPossible(mac)
                 /\ ~IsPreemptionLaterPossible(mac) /\ mac' = mac
        <4>1. mac.currentExpressFrame = NoFrame
                => mac.endTx + InterframeGap <= WaitBound /\ EndIsSettled(mac)
          BY <1>1, <3>4, TooShortToCut
        <4>2. expressWait = 0 => expressWait + mac.endTx = mac.endTx
          BY <1>1, <3>4 DEF SendsPart
        <4>3. QED
          BY <1>4, <3>2, <3>4, <4>1, <4>2 DEF PartWaitInv
      <3>5. CASE mac' = [mac EXCEPT !.requestPacket = TRUE]
        <4>1. mac'.requestPacket /\ mac'.recheck = mac.recheck
          BY <1>1, <3>5 DEF Mac
        <4>2. EndIsSettled(mac) => EndIsSettled(mac')
          BY <1>1, <3>5
             DEF EndIsSettled, Uncut, PartEnd, Rest, PayloadBytesRemaining,
                 PayloadBytesSent, Mac
        <4>3. expressWait = 0
                => expressWait + Checksum * ByteTime + InterframeGap <= WaitBound
          BY WaitBounds, ChecksumTime, Sizes
        <4>4. QED
          BY <1>4, <2>1, <3>2, <4>1, <4>2, <4>3 DEF PartWaitInv
      <3>6. CASE mac'.recheck \in Nat
        BY <1>4, <2>1, <3>2, <3>6, NotScheduledIsNoTime DEF PartWaitInv
      <3>7. QED
        BY <1>4, <3>1, <3>3, <3>4, <3>5, <3>6, MacIsTold
    <2>5. QED
      BY <2>3, <2>4 DEF WaitInv
  <1>5. QED
    BY <1>2, <1>3, <1>4 DEF HandlePacketEnqueued

\* A frame that comes to an empty queue has not waited, and the transmission
\* selection hears of it.
LEMMA ExpressArrivesWait ==
  ASSUME MacInv, WaitInv, NEW bytes \in ExpressBytes, ArriveExpress(bytes)
  PROVE  WaitInv'
  <1>1. /\ UNCHANGED <<mac, expressWait, enableHoldAndRelease, expressWindow, untilTick>>
        /\ selectionPacketEnqueued' = (selectionPacketEnqueued \/ expressWindow)
        /\ expressQueue' = Append(expressQueue,
             [express |-> TRUE, number |-> expressCount', bytes |-> bytes])
        /\ expressCount' = expressCount + 1
    BY DEF ArriveExpress, gateVars
  <1>2. /\ mac \in Mac /\ expressWait \in Nat
        /\ expressQueue \in Seq(Frame) /\ expressCount \in Nat
    BY Sizes DEF MacInv, TypeOK
  <1>3. /\ expressQueue' # <<>>
        /\ expressQueue # <<>> => Head(expressQueue') = Head(expressQueue)
    <2>1. bytes \in Nat
      BY Sizes
    <2>2. [express |-> TRUE, number |-> expressCount', bytes |-> bytes] \in Frame
      BY <1>1, <1>2, <2>1 DEF Frame
    <2>3. QED
      BY <1>1, <1>2, <2>2, AppendedQueue
  <1>4. ExpressReady => ExpressReady'
    BY <1>1, <1>3 DEF ExpressReady
  <1>5. ExpressReady' => expressWindow
    BY <1>1 DEF ExpressReady, MacInv, GatesInv
  <1>6. ExpressReady' /\ expressQueue # <<>> => ExpressReady
    BY <1>1, <1>3 DEF ExpressReady
  <1>7. ExpressWaits => ExpressWaits'
    BY <1>1, <1>4 DEF ExpressWaits
  <1>8. ExpressWaits' /\ ~ExpressWaits =>
          /\ mac.currentExpressFrame = NoFrame /\ expressWindow /\ expressWait = 0
    <2>1. SUFFICES ASSUME ExpressWaits', ~ExpressWaits
                   PROVE  /\ mac.currentExpressFrame = NoFrame
                          /\ expressWindow /\ expressWait = 0
      OBVIOUS
    <2>2. /\ mac.currentExpressFrame = NoFrame /\ mac.transmitting # "express"
          /\ ExpressReady' /\ ~ExpressReady
      BY <1>1, <2>1 DEF ExpressWaits
    <2>3. QED
      BY <1>5, <1>6, <2>1, <2>2 DEF WaitInv, PastWaitInv
  <1>9. ExpressWaitIsBounded' /\ KeptExpressInv'
    BY <1>1 DEF WaitInv, ExpressWaitIsBounded, KeptExpressInv
  <1>10. PastWaitInv'
    BY <1>1, <1>3, <1>7 DEF WaitInv, PastWaitInv
  <1>11. GapWaitInv'
    <2>1. SUFFICES ASSUME mac.transmitState = "WAIT_IFG"
                   PROVE  /\ mac.endIFG <= InterframeGap
                          /\ ExpressWaits' => expressWait + mac.endIFG <= WaitBound
      BY <1>1 DEF GapWaitInv
    <2>2. mac.endIFG \in Nat
      BY <1>2, <2>1, Stages DEF MacInv, InGap
    <2>3. /\ mac.endIFG <= InterframeGap
          /\ ExpressWaits => expressWait + mac.endIFG <= WaitBound
      BY <2>1 DEF WaitInv, GapWaitInv
    <2>4. expressWait = 0 => expressWait + mac.endIFG <= WaitBound
      BY <2>2, <2>3, WaitBounds, Sizes
    <2>5. QED
      BY <1>8, <2>3, <2>4
  <1>12. PartWaitInv'
    <2>1. SUFFICES ASSUME ExpressWaits', mac.transmitting = "preemptable"
                   PROVE  PartWaitInv'
      BY <1>1 DEF PartWaitInv
    <2>2. CASE ExpressWaits
      BY <1>1, <2>1, <2>2 DEF WaitInv, PartWaitInv
    <2>3. CASE ~ExpressWaits
      <3>1. /\ mac'.currentExpressFrame = NoFrame
            /\ expressWait' = 0 /\ selectionPacketEnqueued'
        BY <1>1, <1>8, <2>1, <2>3
      <3>2. expressWait' <= mac'.elapsed
        BY <1>1, <1>2, <3>1, Fields
      <3>3. QED
        BY <3>1, <3>2 DEF PartWaitInv
    <2>4. QED
      BY <2>2, <2>3
  <1>13. QED
    BY <1>9, <1>10, <1>11, <1>12 DEF WaitInv

LEMMA PreemptableArrivesWait ==
  ASSUME MacInv, WaitInv, NEW bytes \in PreemptableBytes, ArrivePreemptable(bytes)
  PROVE  WaitInv'
  <1>1. /\ UNCHANGED <<mac, expressWait, expressQueue, enableHoldAndRelease,
                       expressWindow, untilTick>>
        /\ selectionPacketEnqueued' = (selectionPacketEnqueued \/ ~mac.onHold)
    BY DEF ArrivePreemptable, gateVars
  <1>2. ExpressWaits' <=> ExpressWaits
    BY <1>1, WaitingStays
  <1>3. PartWaitInv'
    BY <1>1, <1>2 DEF WaitInv, PartWaitInv
  <1>4. ExpressWaitIsBounded' /\ GapWaitInv' /\ PastWaitInv' /\ KeptExpressInv'
    BY <1>1, <1>2
       DEF WaitInv, ExpressWaitIsBounded, GapWaitInv, PastWaitInv, KeptExpressInv
  <1>5. QED
    BY <1>3, <1>4 DEF WaitInv

\* A frame waits only while something goes on that ends its wait.
LEMMA TimePassesWait ==
  ASSUME MacInv, WaitInv, Elapse
  PROVE  WaitInv'
  <1>1. /\ mac' \in Mac /\ SameRest
        /\ ~mac.requestPacket
        /\ mac'.transmitState = mac.transmitState
        /\ mac'.transmitting = mac.transmitting
        /\ mac'.curTxFrame = mac.curTxFrame
        /\ mac'.currentExpressFrame = mac.currentExpressFrame
        /\ 0 \notin {mac.endTx, mac.endIFG, mac.recheck, mac.preempt}
        /\ mac'.endTx = Later(mac.endTx) /\ mac'.endIFG = Later(mac.endIFG)
        /\ mac'.recheck = Later(mac.recheck) /\ mac'.preempt = Later(mac.preempt)
        /\ ExpressReady' => ExpressReady
    BY TimePasses
  <1>2. /\ ~selectionPacketEnqueued
        /\ expressWait' = IF ExpressWaits THEN expressWait + 1 ELSE 0
        /\ UNCHANGED <<expressQueue, packetRequested, enableHoldAndRelease, expressWindow>>
    BY DEF Elapse, InstantOver, queueVars, selectionVars
  <1>3. mac \in Mac /\ expressWait \in Nat
    BY DEF MacInv, TypeOK
  <1>4. ExpressWaits' => ExpressWaits
    BY <1>1 DEF ExpressWaits
  <1>5. CASE ~ExpressWaits
    <2>1. expressWait' = 0 /\ ~ExpressWaits'
      BY <1>2, <1>4, <1>5
    <2>2. ExpressWaitIsBounded'
      BY <2>1, WaitBounds DEF ExpressWaitIsBounded, WaitBound
    <2>3. GapWaitInv'
      <3>1. SUFFICES ASSUME mac.transmitState = "WAIT_IFG"
                     PROVE  mac'.endIFG <= InterframeGap
        BY <1>1, <2>1 DEF GapWaitInv
      <3>2. mac.endIFG \in Timer /\ mac.endIFG # 0 /\ mac.endIFG # NotScheduled
        BY <1>1, <1>3, <3>1, Stages, NotScheduledIsNoTime DEF MacInv, InGap
      <3>3. mac'.endIFG = mac.endIFG - 1 /\ mac.endIFG \in Nat
        BY <1>1, <3>2, TimersRun
      <3>4. mac.endIFG <= InterframeGap
        BY <3>1 DEF WaitInv, GapWaitInv
      <3>5. QED
        BY <3>3, <3>4, Sizes
    <2>4. QED
      BY <1>1, <1>2, <2>1, <2>2, <2>3
         DEF WaitInv, PartWaitInv, PastWaitInv, KeptExpressInv
  <1>6. CASE ExpressWaits /\ mac.transmitting = "preemptable"
    <2>1. SendsPart(mac) /\ SendsPart(mac')
      BY <1>3, <1>6, Stages, TimePasses DEF MacInv
    <2>2. /\ Rest(mac') = Rest(mac) /\ PartEnd(mac') = PartEnd(mac)
          /\ mac'.elapsed = mac.elapsed + 1
      BY <1>6, <2>1, TimePasses
    <2>3. /\ mac.endTx \in Nat /\ mac.endTx >= 1 /\ mac'.endTx = mac.endTx - 1
          /\ mac.elapsed \in Nat
      BY <1>1, <1>3, <2>1, TimersRun, Fields, NotScheduledIsNoTime DEF SendsPart
    <2>4. expressWait' = expressWait + 1
      BY <1>2, <1>6
    <2>5. /\ expressWait <= mac.elapsed
          /\ \/ mac.recheck # NotScheduled
             \/ expressWait + mac.endTx + InterframeGap <= WaitBound /\ EndIsSettled(mac)
          /\ mac.currentExpressFrame # NoFrame
               => expressWait + mac.endTx + InterframeGap <= WaitBound
      BY <1>1, <1>2, <1>6 DEF WaitInv, PartWaitInv
    <2>6. expressWait + 1 <= WaitBound
      <3>1. CASE mac.recheck # NotScheduled
        <4>1. mac.recheck \in Nat /\ mac.recheck >= 1
          BY <1>1, <1>3, <3>1, Fields, TimersRun
        <4>2. mac.elapsed + mac.recheck < (MinNonFinal + 1) * ByteTime
          BY <2>1, <3>1 DEF SendsPart, AwaitsCut
        <4>3. expressWait + 1 <= (MinNonFinal + 1) * ByteTime
          BY <1>3, <2>3, <2>5, <4>1, <4>2, NonFinalTime, Sizes
        <4>4. QED
          BY <1>3, <4>3, WaitBounds, NonFinalTime, ChecksumTime, Sizes
      <3>2. CASE expressWait + mac.endTx + InterframeGap <= WaitBound
        BY <1>3, <2>3, <3>2, WaitBounds, Sizes
      <3>3. QED
        BY <2>5, <3>1, <3>2
    <2>7. EndIsSettled(mac) => EndIsSettled(mac')
      <3>1. Uncut(mac) => Uncut(mac')
        BY <2>2 DEF Uncut
      <3>2. mac.preempt = NotScheduled => mac'.preempt = NotScheduled
        BY <1>1 DEF Later
      <3>3. PayloadBytesRemaining(mac') <= PayloadBytesRemaining(mac)
        <4>1. PayloadBytesSent(mac) <= PayloadBytesSent(mac')
          <5> DEFINE sent == mac.elapsed \div ByteTime
                     now == (mac.elapsed + 1) \div ByteTime
          <5>1. /\ sent \in Nat /\ sent * ByteTime <= mac.elapsed
                /\ now \in Nat /\ mac.elapsed + 1 < now * ByteTime + ByteTime
            BY <2>3, WholeBytes
          <5> HIDE DEF sent, now
          <5>2. ~(now + 1 <= sent)
            <6>1. (now + 1) * ByteTime = now * ByteTime + ByteTime
              BY <5>1, Scaling, Sizes
            <6>2. now + 1 <= sent => (now + 1) * ByteTime <= sent * ByteTime
              BY <5>1, Scaling
            <6>3. sent * ByteTime \in Int /\ now * ByteTime \in Int
              BY <5>1, Scaling
            <6>4. QED
              BY <2>3, <5>1, <6>1, <6>2, <6>3, Sizes
          <5>3. sent <= now
            BY <5>1, <5>2
          <5>4. QED
            BY <2>2, <5>3 DEF PayloadBytesSent, sent, now
        <4>2. QED
          BY <1>1, <1>3, <2>2, <4>1, Fields
      <3>4. PayloadBytesRemaining(mac) < MinFinal => PayloadBytesRemaining(mac') < MinFinal
        BY <1>1, <1>3, <3>3, Fields, Sizes
      <3>5. QED
        BY <1>1, <3>1, <3>2, <3>4 DEF EndIsSettled
    <2>8. PartWaitInv'
      <3>1. expressWait' <= mac'.elapsed
        BY <1>3, <2>2, <2>3, <2>4, <2>5
      <3>2. expressWait' + mac'.endTx = expressWait + mac.endTx
        BY <1>3, <2>3, <2>4
      <3>3. mac.recheck # NotScheduled => mac'.recheck # NotScheduled
        BY <1>1, <1>3, Fields, TimersRun
      <3>4. QED
        BY <1>1, <2>5, <2>7, <3>1, <3>2, <3>3 DEF PartWaitInv
    <2>9. ExpressWaitIsBounded'
      BY <2>4, <2>6 DEF ExpressWaitIsBounded, WaitBound
    <2>10. PastWaitInv'
      BY <1>1, <1>2, <1>6 DEF PastWaitInv, ExpressWaits, ExpressReady
    <2>11. GapWaitInv' /\ KeptExpressInv'
      BY <1>1, <1>2, <2>1 DEF WaitInv, GapWaitInv, KeptExpressInv, SendsPart
    <2>12. QED
      BY <2>8, <2>9, <2>10, <2>11 DEF WaitInv
  <1>7. CASE ExpressWaits /\ InGap(mac)
    <2>1. mac.endIFG \in Timer /\ mac.endIFG # 0 /\ mac.endIFG # NotScheduled
      BY <1>1, <1>7, NotScheduledIsNoTime DEF InGap
    <2>2. mac'.endIFG = mac.endIFG - 1 /\ mac.endIFG \in Nat
      BY <1>1, <2>1, TimersRun
    <2>3. /\ mac.endIFG <= InterframeGap /\ expressWait + mac.endIFG <= WaitBound
          /\ expressWait' = expressWait + 1
      BY <1>2, <1>7 DEF WaitInv, GapWaitInv, InGap
    <2>4. /\ mac'.endIFG <= InterframeGap
          /\ expressWait' + mac'.endIFG <= WaitBound /\ expressWait' <= WaitBound
      BY <1>3, <2>1, <2>2, <2>3, WaitBounds, Sizes
    <2>5. GapWaitInv' /\ ExpressWaitIsBounded'
      BY <2>4 DEF GapWaitInv, ExpressWaitIsBounded, WaitBound
    <2>6. PastWaitInv'
      BY <1>1, <1>2, <1>7 DEF PastWaitInv, ExpressWaits, ExpressReady, InGap
    <2>7. QED
      BY <1>1, <1>7, <2>5, <2>6 DEF WaitInv, PartWaitInv, KeptExpressInv, InGap
  <1>8. ~(ExpressWaits /\ Idle(mac))
    <2>1. SUFFICES ASSUME ExpressWaits, Idle(mac)
                   PROVE  FALSE
      OBVIOUS
    <2>2. packetRequested
      BY <1>1, <1>3, <2>1, Stages DEF MacInv, Idle
    <2>3. ExpressReady
      BY <2>1 DEF ExpressWaits, Idle
    <2>4. QED
      BY <1>2, <2>2, <2>3 DEF MacInv, NotifiedInv
  <1>9. QED
    <2>1. ExpressWaits => mac.transmitting = "preemptable" \/ InGap(mac) \/ Idle(mac)
      BY DEF MacInv, StageInv, ExpressWaits, SendsExpress, SendsPart
    <2>2. QED
      BY <1>5, <1>6, <1>7, <1>8, <2>1

LEMMA StepWait ==
  ASSUME MacInv, WaitInv, [Next]_vars
  PROVE  WaitInv'
  <1>1. CASE EventLoop
    <2>1. CASE HandleEndTxPeriodExpress
      BY <2>1, ExpressEndsWait
    <2>2. CASE HandleEndTxPeriodPreemptable
      BY <2>2, PartEndsWait
    <2>3. CASE HandleEndIFGPeriod
      BY <2>3, GapEndsWait
    <2>4. CASE Recheck
      BY <2>4, RecheckIsDueWait
    <2>5. CASE PreemptCurrentFrameDue
      BY <2>5, PreemptionIsDueWait
    <2>6. CASE HoldRequest
      BY <2>6, HoldBeginsWait
    <2>7. CASE TickOpensExpress
      BY <2>7, TickOpensWait
    <2>8. CASE TickClosesExpress
      BY <2>8, TickClosesWait
    <2>9. CASE HandleRequestPacket
      BY <2>9, RequestHandledWait
    <2>10. CASE HandlePacketEnqueued
      BY <2>10, NotificationHandledWait
    <2>11. CASE Elapse
      BY <2>11, TimePassesWait
    <2>12. QED
      BY <1>1, <2>1, <2>2, <2>3, <2>4, <2>5, <2>6, <2>7, <2>8, <2>9, <2>10, <2>11
         DEF EventLoop
  <1>2. CASE \E bytes \in ExpressBytes : ArriveExpress(bytes)
    BY <1>2, ExpressArrivesWait
  <1>3. CASE \E bytes \in PreemptableBytes : ArrivePreemptable(bytes)
    BY <1>3, PreemptableArrivesWait
  <1>4. CASE UNCHANGED vars
    <2>1. UNCHANGED <<expressQueue, mac, selectionPacketEnqueued, enableHoldAndRelease,
                      expressWindow, untilTick, expressWait>>
      BY <1>4 DEF vars, queueVars, selectionVars, gateVars
    <2>2. ExpressWaits' <=> ExpressWaits
      BY <2>1, WaitingStays
    <2>3. QED
      BY <2>1, <2>2 DEF WaitInv, ExpressWaitIsBounded, PartWaitInv, GapWaitInv,
                        PastWaitInv, KeptExpressInv
  <1>5. QED
    BY <1>1, <1>2, <1>3, <1>4 DEF Next

\* What preemption is for: however long preemptable frames are, however many
\* frames come meanwhile and wherever holds fall, the express frame that is
\* next is on the wire within the time of a part that is just too short to be
\* cut and the gap behind it.
THEOREM ExpressWaitBound ==
  ASSUME HoldOutlastsFrames
  PROVE  Spec => []ExpressWaitIsBounded
  <1>1. Init => MacInv /\ WaitInv
    BY InitMac, InitWait
  <1>2. MacInv /\ WaitInv /\ [Next]_vars => (MacInv /\ WaitInv)'
    BY StepMac, StepWait
  <1>3. WaitInv => ExpressWaitIsBounded
    BY DEF WaitInv
  <1>4. QED
    BY <1>1, <1>2, <1>3, PTL DEF Spec
=============================================================================
