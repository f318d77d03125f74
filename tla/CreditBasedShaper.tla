-------------------------- MODULE CreditBasedShaper --------------------------
(***************************************************************************)
(* A traffic class with the credit-based shaper, its queue and its gate,   *)
(* in front of a transmission selection and a MAC that also serve others.  *)
(*                                                                         *)
(* The shaper computes its credit only at events: it charges a packet as a *)
(* whole when it is sent, and adds what was earned since the last event.   *)
(* Its two self-messages race with the gate and with the packets.          *)
(*                                                                         *)
(* The unit of time is a bit's time on the wire; the unit of credit is     *)
(* what the class earns in it, so idleSlopeFactor is 1 / CreditPerBit.     *)
(* A request and its packet take one step here: EgressPort shows that the  *)
(* chain of events behind them amounts to one.                             *)
(***************************************************************************)
EXTENDS Integers, Sequences

CONSTANTS
  CreditPerBit,   \* credit worth one bit
  PacketSizes,    \* getFinalEthernet2FrameBitLength of the packets
  OtherSizes,     \* ... of the frames of other classes
  InterframeGap,
  GateCloses,     \* whether the schedule closes the gate: what it may be
  OpenTime,       \* how long the gate is then open,
  ClosedTime,     \* and closed
  MaxArrivals,    \* bound on the packets of the class
  MaxOthers       \* bound on the frames of other classes

ASSUME SlopeAssumption == CreditPerBit \in Nat \ {0, 1}
ASSUME SizesAssumption == PacketSizes \cup OtherSizes \subseteq Nat \ {0}
ASSUME LongestAssumption == \E m \in PacketSizes : \A n \in PacketSizes : n <= m
ASSUME TimesAssumption ==
  /\ GateCloses \subseteq BOOLEAN
  /\ {InterframeGap, OpenTime, ClosedTime} \subseteq Nat \ {0}
ASSUME BoundsAssumption == MaxArrivals \in Nat /\ MaxOthers \in Nat

VARIABLES
  queue,              \* the lengths of the waiting packets
  credit,
  state,
  sinceEvent,         \* time since lastEventTimestamp, 0 unless credit is earned
  reachedZeroCredit,  \* time until the self-message, or NotScheduled
  endSpendingCredit,  \* the same
  packetEnqueued,     \* packetEnqueuedMsg is due at this instant
  gateStateChanged,   \* gateStateChangedMsg is due at this instant
  gateCloses,         \* the gate control list has an entry that closes the gate
  gateOpen,
  untilTick,          \* time until the gate controller changes the gate
  selectionTurn,      \* the transmission selection has a self-message due
  requested,          \* the MAC has asked and was not served yet
  macBusy,            \* time until the MAC asks again, 0 once it has
  arrivals, others,
  idealCredit,        \* history: the credit, kept up to date all the time
  aborted             \* the assertion that has failed

shaperVars == <<credit, state, sinceEvent, reachedZeroCredit,
                endSpendingCredit, idealCredit>>
eventVars == <<packetEnqueued, gateStateChanged, selectionTurn>>
gateVars == <<gateOpen, untilTick, gateCloses>>
macVars == <<requested, macBusy>>
vars == <<queue, shaperVars, eventVars, gateVars, macVars, arrivals, others,
          aborted>>

NotScheduled == -1

SendSlope == CreditPerBit - 1

NumbersOK ==
  /\ queue \in Seq(PacketSizes)
  /\ credit \in Int /\ idealCredit \in Int
  /\ state \in {"Idle", "EarnCredit", "SpendCredit"}
  /\ sinceEvent \in Nat
  /\ reachedZeroCredit \in Nat \cup {NotScheduled}
  /\ endSpendingCredit \in Nat \cup {NotScheduled}
  /\ untilTick \in Nat /\ macBusy \in Nat
  /\ arrivals \in 0 .. MaxArrivals /\ others \in 0 .. MaxOthers

TypeOK ==
  /\ NumbersOK
  /\ {packetEnqueued, gateStateChanged, gateCloses, gateOpen, selectionTurn,
      requested} \subseteq BOOLEAN
  /\ aborted \in {"no", "send", "endSpendingCredit", "reachedZeroCredit"}

Init ==
  /\ queue = <<>>
  /\ credit = 0 /\ idealCredit = 0
  /\ state = "Idle" /\ sinceEvent = 0
  /\ reachedZeroCredit = NotScheduled /\ endSpendingCredit = NotScheduled
  /\ packetEnqueued = FALSE /\ gateStateChanged = FALSE
  /\ gateCloses \in GateCloses
  /\ gateOpen = TRUE /\ untilTick = OpenTime
  /\ selectionTurn = TRUE /\ requested = TRUE /\ macBusy = 0
  /\ arrivals = 0 /\ others = 0
  /\ aborted = "no"

-----------------------------------------------------------------------------
(* Credit *)

\* Mutant: any debt is good enough.
AnyCreditPositive(c) == TRUE

\* isCreditPositive truncates to whole bits: a debt below one bit is none.
IsCreditPositive(c) == c > -CreditPerBit

\* The credit with what was earned since the last event.
EarnedCredit == credit + sinceEvent

\* What a packet is charged against.
CreditWhenSending == IF state = "EarnCredit" THEN EarnedCredit ELSE credit

\* isPacketReadyForTransmission; packets are never longer than the MTU.
PacketReady == queue # <<>>

\* The gate lets a packet pass that fits into what is left of its window.
Sendable ==
  /\ gateOpen
  /\ PacketReady /\ IsCreditPositive(credit)
  /\ gateCloses => Head(queue) <= untilTick

-----------------------------------------------------------------------------
(* CreditBasedShaper *)

\* scheduleAt(idleTimeToZeroCredit(), ...), unless the credit is positive.
ZeroCreditAt(c) == IF IsCreditPositive(c) THEN NotScheduled ELSE -c

HandleGateStateChanged ==
  /\ gateStateChanged
  /\ gateStateChanged' = FALSE
  /\ IF gateOpen
       THEN IF state = "Idle" /\ PacketReady
              THEN /\ state' = "EarnCredit"
                   /\ reachedZeroCredit' = ZeroCreditAt(credit)
                   /\ UNCHANGED <<credit, sinceEvent>>
              ELSE UNCHANGED <<credit, state, sinceEvent, reachedZeroCredit>>
       ELSE IF state = "EarnCredit"
              THEN /\ state' = "Idle"
                   /\ reachedZeroCredit' = NotScheduled
                   /\ credit' = EarnedCredit
                   /\ sinceEvent' = 0
              ELSE UNCHANGED <<credit, state, sinceEvent, reachedZeroCredit>>
  \* TransmissionGate tells the transmission selection
  /\ selectionTurn' = (selectionTurn \/ Sendable)
  /\ UNCHANGED <<queue, endSpendingCredit, idealCredit, packetEnqueued,
                 gateVars, macVars, arrivals, others, aborted>>

\* Mutant: only a surplus is passed on.
PassesOnSurplus(c) == c > 0

\* packetEnqueued goes on to the gate, which passes it on if it is open.
PassesOn(c) == IsCreditPositive(c) /\ gateOpen

\* Mutant: the instant from which credit is earned is not reset.
RestartedEarningLate == sinceEvent

\* updateState sets lastEventTimestamp.
RestartedEarning == 0

HandlePacketEnqueued ==
  /\ packetEnqueued
  /\ packetEnqueued' = FALSE
  /\ CASE state = "Idle" /\ gateOpen ->
            /\ state' = "EarnCredit"
            /\ reachedZeroCredit' = ZeroCreditAt(credit)
            /\ UNCHANGED <<credit, sinceEvent>>
       [] state = "EarnCredit" ->
            /\ credit' = EarnedCredit
            /\ sinceEvent' = RestartedEarning
            /\ reachedZeroCredit' = ZeroCreditAt(EarnedCredit)
            /\ UNCHANGED state
       [] OTHER ->
            UNCHANGED <<credit, state, sinceEvent, reachedZeroCredit>>
  /\ selectionTurn' = (selectionTurn \/ PassesOn(credit'))
  /\ UNCHANGED <<queue, endSpendingCredit, idealCredit, gateStateChanged,
                 gateVars, macVars, arrivals, others, aborted>>

\* handleSendPacketEvent with its three assertions.
HandleSendPacket(bits) ==
  IF state = "SpendCredit" \/ ~IsCreditPositive(credit)
       \/ reachedZeroCredit # NotScheduled
    THEN /\ aborted' = "send"
         /\ UNCHANGED shaperVars
    ELSE /\ credit' = CreditWhenSending - SendSlope * bits
         /\ endSpendingCredit' = bits
         /\ state' = "SpendCredit"
         /\ sinceEvent' = 0
         /\ UNCHANGED <<reachedZeroCredit, idealCredit, aborted>>

\* Mutant: a class in debt stays idle.
EarnsAfterPacketWithoutDebt == PacketReady /\ gateOpen /\ credit >= 0

\* Credit is earned after a packet if the next one waits at an open gate.
EarnsAfterPacket == PacketReady /\ gateOpen

HandleEndSpendingCredit ==
  /\ endSpendingCredit = 0
  /\ endSpendingCredit' = NotScheduled
  /\ aborted' = (IF state = "SpendCredit" THEN "no" ELSE "endSpendingCredit")
  /\ IF ~PacketReady /\ IsCreditPositive(credit)
       THEN /\ credit' = 0 /\ idealCredit' = 0
            /\ state' = "Idle"
            /\ UNCHANGED reachedZeroCredit
       ELSE /\ state' = (IF EarnsAfterPacket THEN "EarnCredit" ELSE "Idle")
            /\ reachedZeroCredit' = (IF EarnsAfterPacket /\ credit < 0
                                       THEN -credit ELSE reachedZeroCredit)
            /\ UNCHANGED <<credit, idealCredit>>
  /\ sinceEvent' = 0
  /\ UNCHANGED <<queue, eventVars, gateVars, macVars, arrivals, others>>

HandleZeroCreditReached ==
  /\ reachedZeroCredit = 0
  /\ reachedZeroCredit' = NotScheduled
  /\ IF state = "EarnCredit" /\ gateOpen /\ IsCreditPositive(EarnedCredit)
       THEN /\ credit' = EarnedCredit
            /\ sinceEvent' = 0
            /\ selectionTurn' = (selectionTurn \/ PacketReady)
            /\ UNCHANGED aborted
       ELSE /\ aborted' = "reachedZeroCredit"
            /\ UNCHANGED <<credit, sinceEvent, selectionTurn>>
  /\ UNCHANGED <<queue, state, endSpendingCredit, idealCredit, packetEnqueued,
                 gateStateChanged, gateVars, macVars, arrivals, others>>

-----------------------------------------------------------------------------
(* Its environment *)

\* A packet joins the queue, which notifies the shaper.
Arrive(bits) ==
  /\ arrivals < MaxArrivals
  /\ arrivals' = arrivals + 1
  /\ queue' = Append(queue, bits)
  /\ packetEnqueued' = TRUE
  /\ UNCHANGED <<shaperVars, gateStateChanged, selectionTurn, gateVars,
                 macVars, others, aborted>>

\* The gate controller's tick: the gate's flag changes at once, the shaper
\* hears of it by an event.
GateTick ==
  /\ gateCloses
  /\ untilTick = 0
  /\ gateOpen' = ~gateOpen
  /\ untilTick' = IF gateOpen THEN ClosedTime ELSE OpenTime
  /\ gateStateChanged' = TRUE
  /\ UNCHANGED <<queue, shaperVars, packetEnqueued, selectionTurn, gateCloses,
                 macVars, arrivals, others, aborted>>

\* Nothing of scheduling priority 0 is due at this instant.
Priority0Quiet ==
  /\ ~packetEnqueued /\ ~gateStateChanged
  /\ reachedZeroCredit # 0 /\ endSpendingCredit # 0
  /\ gateCloses => untilTick # 0
  /\ requested \/ macBusy # 0

\* The transmission selection takes a packet of this class,
ServeClass ==
  /\ Priority0Quiet
  /\ selectionTurn /\ requested /\ Sendable
  /\ selectionTurn' = FALSE
  /\ requested' = FALSE
  /\ macBusy' = Head(queue) + InterframeGap
  /\ queue' = Tail(queue)
  /\ HandleSendPacket(Head(queue))
  /\ UNCHANGED <<packetEnqueued, gateStateChanged, gateVars, arrivals, others>>

\* or one of another class, which may be preferred or not,
ServeOther(bits) ==
  /\ Priority0Quiet
  /\ requested /\ others < MaxOthers
  /\ others' = others + 1
  /\ requested' = FALSE
  /\ selectionTurn' = FALSE
  /\ macBusy' = bits + InterframeGap
  /\ UNCHANGED <<queue, shaperVars, packetEnqueued, gateStateChanged, gateVars,
                 arrivals, aborted>>

\* or finds nothing to do.
ServeNothing ==
  /\ Priority0Quiet
  /\ selectionTurn /\ ~(requested /\ Sendable)
  /\ selectionTurn' = FALSE
  /\ UNCHANGED <<queue, shaperVars, packetEnqueued, gateStateChanged, gateVars,
                 macVars, arrivals, others, aborted>>

\* The MAC has sent a frame and its gap, and asks for the next one.
MacRequest ==
  /\ ~requested /\ macBusy = 0
  /\ requested' = TRUE
  /\ selectionTurn' = TRUE
  /\ UNCHANGED <<queue, shaperVars, packetEnqueued, gateStateChanged, gateVars,
                 macBusy, arrivals, others, aborted>>

Later(timer) == IF timer = NotScheduled THEN NotScheduled ELSE timer - 1

InstantOver == Priority0Quiet /\ ~selectionTurn

Elapse ==
  /\ InstantOver
  /\ sinceEvent' = (IF state = "EarnCredit" THEN sinceEvent + 1 ELSE 0)
  /\ idealCredit' = idealCredit + (CASE state = "EarnCredit" -> 1
                                     [] state = "SpendCredit" -> -SendSlope
                                     [] OTHER -> 0)
  /\ reachedZeroCredit' = Later(reachedZeroCredit)
  /\ endSpendingCredit' = Later(endSpendingCredit)
  /\ untilTick' = (IF gateCloses THEN untilTick - 1 ELSE untilTick)
  /\ macBusy' = (IF requested THEN macBusy ELSE macBusy - 1)
  /\ UNCHANGED <<queue, credit, state, eventVars, gateCloses, gateOpen,
                 requested, arrivals, others, aborted>>

EventLoop ==
  /\ aborted = "no"
  /\ \/ HandleGateStateChanged
     \/ HandlePacketEnqueued
     \/ HandleEndSpendingCredit
     \/ HandleZeroCreditReached
     \/ GateTick
     \/ ServeClass
     \/ ServeNothing
     \/ MacRequest
     \/ Elapse

Next ==
  \/ EventLoop
  \/ aborted = "no" /\ \E bits \in PacketSizes : Arrive(bits)
  \/ aborted = "no" /\ \E bits \in OtherSizes : ServeOther(bits)

\* The event loop goes on; nothing makes packets arrive.
Spec == Init /\ [][Next]_vars /\ WF_vars(EventLoop)

-----------------------------------------------------------------------------
(* Properties *)

\* The assertions of handleSendPacketEvent (CreditBasedShaper.cc:209) and of
\* handleEndSpendingCreditEvent (:228): no packet is sent on a debt, during
\* another packet, or while the end of a debt is still awaited, although
\* isEmpty was asked earlier and truncates the credit.
SendingIsSound == aborted \notin {"send", "endSpendingCredit"}

\* The assertion of handleZeroCreditReachedEvent that the gate is open
\* (CreditBasedShaper.cc:248).
ZeroCreditFindsGateOpen == aborted # "reachedZeroCredit"

\* The credit computed at events is the one that a clock ticking all the time
\* would give: at the end of a packet, and whatever is earned in between.
CreditIsExact ==
  idealCredit = CASE state = "EarnCredit"  -> EarnedCredit
                  [] state = "SpendCredit" -> credit + SendSlope * endSpendingCredit
                  [] OTHER                 -> credit

LongestPacket == CHOOSE m \in PacketSizes : \A n \in PacketSizes : n <= m

\* The debt of a class never exceeds what its longest packet costs, and less
\* than a bit: that bounds the bandwidth it can take from others.
DebtIsBounded ==
  credit > -(SendSlope * LongestPacket + CreditPerBit)

\* No lost wake-up: when an instant is over and the MAC waits, the class has
\* nothing that it may send.
WorkConserving == InstantOver /\ requested => ~Sendable

\* Every packet that arrived is sent, unless an assertion ends the run: a class
\* in debt always finds its way out of it.
EventuallyDrained == <>[](queue = <<>> \/ aborted # "no")
=============================================================================
