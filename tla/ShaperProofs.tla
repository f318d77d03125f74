----------------------------- MODULE ShaperProofs -----------------------------
(***************************************************************************)
(* The credit-based shaper, for packets and frames of any lengths, any     *)
(* slopes, any schedule of its gate and any bounds.                        *)
(*                                                                         *)
(* The inductive invariant ties the shaper's state to its two              *)
(* self-messages and to the MAC: while a packet is charged, the MAC is     *)
(* busy with it and with the gap after it, and a selection that could be   *)
(* served is always still to be made or about to be asked for.             *)
(***************************************************************************)
EXTENDS CreditBasedShaper, TLAPS

\* The self-message for the end of a packet is scheduled exactly while credit
\* is spent, the other one only while it is earned, and the MAC asks again one
\* gap after the end of the packet.
TimersInv ==
  /\ state # "EarnCredit" => reachedZeroCredit = NotScheduled /\ sinceEvent = 0
  /\ state = "SpendCredit" => endSpendingCredit # NotScheduled
  /\ state # "SpendCredit" => endSpendingCredit = NotScheduled
  /\ state = "SpendCredit" =>
       ~requested /\ macBusy = endSpendingCredit + InterframeGap

\* If a packet could be sent now, somebody is still to be told.
WakeUpInv ==
  requested /\ Sendable /\ ~selectionTurn =>
    \/ packetEnqueued
    \/ gateStateChanged
    \/ reachedZeroCredit = 0
    \/ endSpendingCredit = 0
    \/ gateCloses /\ untilTick = 0

ShaperInv ==
  /\ NumbersOK
  /\ TimersInv
  /\ CreditIsExact
  /\ DebtIsBounded
  /\ WakeUpInv
  /\ aborted # "endSpendingCredit"

\* The end of a debt that is awaited although the credit counts as positive
\* comes before the MAC asks again.
GapInv ==
  /\ reachedZeroCredit # NotScheduled /\ IsCreditPositive(credit) =>
       IF requested THEN reachedZeroCredit = 0 ELSE reachedZeroCredit <= macBusy
  /\ aborted # "send"

\* A class earns what a bit is worth within the gap between two frames: the
\* slope is not less than 1 / 97 of the link.
GapCoversABit == CreditPerBit <= InterframeGap + 1

-----------------------------------------------------------------------------
(* Arithmetic *)

LEMMA SlopeIsNat == SendSlope \in Nat /\ CreditPerBit \in Nat
  BY SlopeAssumption DEF SendSlope

LEMMA Longest ==
  /\ LongestPacket \in PacketSizes /\ LongestPacket \in Nat
  /\ \A n \in PacketSizes : n \in Nat /\ n > 0 /\ n <= LongestPacket
  BY LongestAssumption, SizesAssumption DEF LongestPacket

\* What a packet costs, and what it costs for a bit less.
LEMMA Cost ==
  ASSUME NEW n \in Nat
  PROVE  /\ SendSlope * n \in Nat
         /\ SendSlope * (n - 1) = SendSlope * n - SendSlope
         /\ \A m \in Nat : n <= m => SendSlope * n <= SendSlope * m
         /\ SendSlope * 0 = 0
  BY SlopeIsNat

-----------------------------------------------------------------------------
(* Steps *)

LEMMA ShaperInit == Init => ShaperInv /\ GapInv
  <1> SUFFICES ASSUME Init PROVE ShaperInv /\ GapInv
    OBVIOUS
  <1>1. NumbersOK
    BY TimesAssumption, BoundsAssumption DEF Init, NumbersOK, NotScheduled
  <1>2. TimersInv /\ WakeUpInv /\ GapInv /\ CreditIsExact
    BY DEF Init, TimersInv, WakeUpInv, GapInv, CreditIsExact, NotScheduled,
           EarnedCredit
  <1>3. DebtIsBounded
    <2>1. SendSlope * LongestPacket \in Nat /\ CreditPerBit >= 1
      BY Longest, Cost, SlopeAssumption
    <2>2. QED
      BY <2>1, SlopeIsNat, Longest DEF Init, DebtIsBounded
  <1>4. QED
    BY <1>1, <1>2, <1>3 DEF ShaperInv, Init

\* Sending charges a packet against a credit that is less than a bit short.
LEMMA ServeClassStep ==
  ASSUME ShaperInv, ServeClass
  PROVE  ShaperInv' /\ (GapInv => GapInv')
  <1> DEFINE bits == Head(queue)
  <1>1. /\ queue \in Seq(PacketSizes) /\ queue # <<>>
        /\ requested /\ ~requested' /\ ~selectionTurn'
        /\ IsCreditPositive(credit) /\ reachedZeroCredit # 0
        /\ queue' = Tail(queue) /\ macBusy' = bits + InterframeGap
        /\ HandleSendPacket(bits)
    BY DEF ShaperInv, NumbersOK, ServeClass, Sendable, PacketReady, Priority0Quiet
  <1>2. /\ bits \in PacketSizes /\ bits \in Nat /\ bits > 0 /\ bits <= LongestPacket
        /\ LongestPacket \in Nat /\ queue' \in Seq(PacketSizes)
    <2>1. bits \in PacketSizes /\ queue' \in Seq(PacketSizes)
      BY <1>1
    <2>2. QED
      BY <2>1, Longest
  <1>3. state # "SpendCredit"
    BY <1>1 DEF ShaperInv, TimersInv
  <1>4. /\ SendSlope * bits \in Nat /\ SendSlope * LongestPacket \in Nat
        /\ SendSlope * bits <= SendSlope * LongestPacket
    BY <1>2, Cost
  <1>5. /\ credit \in Int /\ sinceEvent \in Nat /\ CreditPerBit \in Nat
        /\ CreditWhenSending \in Int /\ CreditWhenSending >= credit
        /\ credit > -CreditPerBit
        /\ idealCredit = CreditWhenSending
    BY <1>1, <1>3, SlopeIsNat
    DEF ShaperInv, NumbersOK, CreditIsExact, CreditWhenSending, EarnedCredit,
        IsCreditPositive, TimersInv
  <1>6. UNCHANGED <<packetEnqueued, gateStateChanged, gateVars, arrivals, others, idealCredit>>
    BY DEF ServeClass, HandleSendPacket, shaperVars
  <1> HIDE DEF bits
  <1>7. CASE reachedZeroCredit # NotScheduled
    <2>1. aborted' = "send" /\ UNCHANGED shaperVars
      BY <1>1, <1>7 DEF HandleSendPacket
    <2>2. NumbersOK'
      BY <1>1, <1>2, <1>6, <2>1, TimesAssumption
      DEF ShaperInv, NumbersOK, shaperVars, gateVars
    <2>3. TimersInv'
      BY <1>1, <1>3, <1>7, <2>1 DEF ShaperInv, TimersInv, shaperVars
    <2>4. CreditIsExact' /\ DebtIsBounded'
      BY <2>1 DEF ShaperInv, CreditIsExact, DebtIsBounded, shaperVars, EarnedCredit
    <2>5. WakeUpInv'
      BY <1>1 DEF WakeUpInv
    <2>6. ~GapInv
      BY <1>1, <1>7 DEF GapInv
    <2>7. QED
      BY <2>1, <2>2, <2>3, <2>4, <2>5, <2>6 DEF ShaperInv
  <1>8. CASE reachedZeroCredit = NotScheduled
    <2>1. /\ credit' = CreditWhenSending - SendSlope * bits
          /\ endSpendingCredit' = bits
          /\ state' = "SpendCredit"
          /\ sinceEvent' = 0
          /\ UNCHANGED <<reachedZeroCredit, aborted>>
      BY <1>1, <1>3, <1>8 DEF HandleSendPacket
    <2>2. NumbersOK'
      BY <1>1, <1>2, <1>4, <1>5, <1>6, <2>1, TimesAssumption, SMTT(30)
      DEF ShaperInv, NumbersOK, gateVars
    <2>3. TimersInv'
      BY <1>1, <1>2, <1>8, <2>1 DEF TimersInv, NotScheduled
    <2>4. CreditIsExact'
      BY <1>4, <1>5, <1>6, <2>1 DEF CreditIsExact
    <2>5. DebtIsBounded'
      BY <1>4, <1>5, <2>1 DEF DebtIsBounded
    <2>6. WakeUpInv'
      BY <1>1 DEF WakeUpInv
    <2>7. GapInv => GapInv'
      BY <1>8, <2>1 DEF GapInv
    <2>8. QED
      BY <2>1, <2>2, <2>3, <2>4, <2>5, <2>6, <2>7 DEF ShaperInv
  <1>9. QED
    BY <1>7, <1>8

\* The end of a packet finds the credit that a ticking clock would show.
LEMMA EndSpendingStep ==
  ASSUME ShaperInv, HandleEndSpendingCredit
  PROVE  ShaperInv' /\ (GapCoversABit /\ GapInv => GapInv')
  <1>1. /\ endSpendingCredit = 0 /\ endSpendingCredit' = NotScheduled
        /\ state = "SpendCredit" /\ reachedZeroCredit = NotScheduled
        /\ ~requested /\ macBusy = InterframeGap
        /\ sinceEvent' = 0 /\ aborted' = "no"
        /\ UNCHANGED <<queue, eventVars, gateVars, macVars, arrivals, others>>
    BY TimesAssumption
    DEF HandleEndSpendingCredit, ShaperInv, TimersInv, NumbersOK, NotScheduled
  <1>2. credit \in Int /\ idealCredit = credit
    BY <1>1, Cost DEF ShaperInv, NumbersOK, CreditIsExact
  <1>3. /\ credit' \in Int /\ (credit' >= credit \/ credit' = 0)
        /\ idealCredit' = credit'
        /\ state' \in {"EarnCredit", "Idle"}
        /\ \/ reachedZeroCredit' = NotScheduled
           \/ /\ reachedZeroCredit' = -credit /\ credit < 0 /\ credit' = credit
              /\ state' = "EarnCredit"
    <2>1. CASE ~PacketReady /\ IsCreditPositive(credit)
      <3>1. credit' = 0 /\ idealCredit' = 0 /\ state' = "Idle"
            /\ reachedZeroCredit' = NotScheduled
        BY <1>1, <2>1 DEF HandleEndSpendingCredit
      <3>2. QED
        BY <3>1
    <2>2. CASE ~(~PacketReady /\ IsCreditPositive(credit))
      BY <1>1, <1>2, <2>2 DEF HandleEndSpendingCredit
    <2>3. QED
      BY <2>1, <2>2
  <1>4. NumbersOK'
    BY <1>1, <1>2, <1>3 DEF ShaperInv, NumbersOK, NotScheduled, eventVars,
                            gateVars, macVars
  <1>5. TimersInv'
    BY <1>1, <1>3 DEF TimersInv
  <1>6. CreditIsExact'
    BY <1>1, <1>3 DEF CreditIsExact, EarnedCredit
  <1>7. DebtIsBounded'
    <2>1. SendSlope * LongestPacket \in Nat /\ CreditPerBit > 0 /\ CreditPerBit \in Nat
      BY Longest, Cost, SlopeAssumption
    <2>2. credit > -(SendSlope * LongestPacket + CreditPerBit)
      BY DEF ShaperInv, DebtIsBounded
    <2>3. SendSlope' = SendSlope /\ LongestPacket' = LongestPacket
      BY DEF SendSlope, LongestPacket
    <2>4. QED
      BY <1>2, <1>3, <2>1, <2>2 DEF DebtIsBounded
  <1>8. WakeUpInv'
    BY <1>1 DEF WakeUpInv, macVars
  <1>9. GapCoversABit => GapInv'
    <2>1. SUFFICES ASSUME GapCoversABit, reachedZeroCredit' # NotScheduled,
                          IsCreditPositive(credit')
                   PROVE  ~requested' /\ reachedZeroCredit' <= macBusy'
      BY <1>1 DEF GapInv
    <2>2. reachedZeroCredit' = -credit /\ credit > -CreditPerBit
      BY <1>3, <2>1 DEF IsCreditPositive
    <2>3. CreditPerBit \in Nat /\ InterframeGap \in Nat /\ CreditPerBit <= InterframeGap + 1
      BY <2>1, TimesAssumption, SlopeAssumption DEF GapCoversABit
    <2>4. QED
      BY <1>1, <1>2, <2>2, <2>3 DEF macVars
  <1>10. QED
    BY <1>1, <1>4, <1>5, <1>6, <1>7, <1>8, <1>9 DEF ShaperInv

\* The gate's event moves the shaper between waiting and earning.
LEMMA GateStateChangedStep ==
  ASSUME ShaperInv, HandleGateStateChanged
  PROVE  ShaperInv' /\ (GapInv => GapInv')
  <1>1. /\ selectionTurn' = (selectionTurn \/ Sendable)
        /\ UNCHANGED <<queue, endSpendingCredit, idealCredit, packetEnqueued,
                       gateVars, macVars, arrivals, others, aborted>>
    BY DEF HandleGateStateChanged
  <1>2. /\ credit \in Int /\ sinceEvent \in Nat /\ CreditPerBit \in Nat
        /\ credit > -(SendSlope * LongestPacket + CreditPerBit)
        /\ SendSlope * LongestPacket \in Nat
    BY SlopeIsNat, Longest, Cost DEF ShaperInv, NumbersOK, DebtIsBounded
  <1>3. CASE gateOpen /\ state = "Idle" /\ PacketReady
    <2>1. /\ state' = "EarnCredit" /\ reachedZeroCredit' = ZeroCreditAt(credit)
          /\ UNCHANGED <<credit, sinceEvent>>
      BY <1>3 DEF HandleGateStateChanged
    <2>2. ZeroCreditAt(credit) \in Nat \cup {NotScheduled}
          /\ (IsCreditPositive(credit) => ZeroCreditAt(credit) = NotScheduled)
      BY <1>2 DEF ZeroCreditAt, IsCreditPositive
    <2>3. NumbersOK'
      BY <1>1, <1>2, <2>1, <2>2 DEF ShaperInv, NumbersOK, gateVars, macVars
    <2>4. TimersInv'
      BY <1>1, <1>3, <2>1 DEF ShaperInv, TimersInv, macVars
    <2>5. CreditIsExact'
      BY <1>1, <1>2, <1>3, <2>1 DEF ShaperInv, TimersInv, CreditIsExact, EarnedCredit
    <2>6. DebtIsBounded'
      BY <2>1 DEF ShaperInv, DebtIsBounded
    <2>7. Sendable' => Sendable
      BY <1>1, <2>1 DEF Sendable, PacketReady, gateVars
    <2>8. GapInv => GapInv'
      BY <1>1, <2>1, <2>2 DEF GapInv
    <2>9. QED
      BY <1>1, <2>3, <2>4, <2>5, <2>6, <2>7, <2>8 DEF ShaperInv, WakeUpInv
  <1>4. CASE ~gateOpen /\ state = "EarnCredit"
    <2>1. /\ state' = "Idle" /\ reachedZeroCredit' = NotScheduled
          /\ credit' = EarnedCredit /\ sinceEvent' = 0
      BY <1>4 DEF HandleGateStateChanged
    <2>2. EarnedCredit \in Int /\ EarnedCredit >= credit /\ idealCredit = EarnedCredit
      BY <1>2, <1>4 DEF EarnedCredit, ShaperInv, CreditIsExact
    <2>3. NumbersOK'
      BY <1>1, <1>2, <2>1, <2>2 DEF ShaperInv, NumbersOK, gateVars, macVars
    <2>4. TimersInv'
      BY <1>1, <1>4, <2>1 DEF ShaperInv, TimersInv, macVars
    <2>5. CreditIsExact'
      BY <1>1, <2>1, <2>2 DEF CreditIsExact
    <2>6. DebtIsBounded'
      BY <1>2, <2>1, <2>2 DEF DebtIsBounded
    <2>7. ~Sendable'
      BY <1>1, <1>4 DEF Sendable, gateVars
    <2>8. GapInv => GapInv'
      BY <1>1, <2>1 DEF GapInv
    <2>9. QED
      BY <1>1, <2>3, <2>4, <2>5, <2>6, <2>7, <2>8 DEF ShaperInv, WakeUpInv
  <1>5. CASE UNCHANGED <<credit, state, sinceEvent, reachedZeroCredit>>
    <2>1. Sendable' => Sendable
      BY <1>1, <1>5 DEF Sendable, PacketReady, gateVars
    <2>2. NumbersOK' /\ TimersInv'
      BY <1>1, <1>5 DEF ShaperInv, NumbersOK, TimersInv, gateVars, macVars
    <2>3. CreditIsExact' /\ DebtIsBounded'
      BY <1>1, <1>5 DEF ShaperInv, CreditIsExact, DebtIsBounded, EarnedCredit
    <2>4. GapInv => GapInv'
      BY <1>1, <1>5 DEF GapInv, macVars
    <2>5. QED
      BY <1>1, <2>1, <2>2, <2>3, <2>4 DEF ShaperInv, WakeUpInv
  <1>6. QED
    BY <1>3, <1>4, <1>5 DEF HandleGateStateChanged

\* So does the arrival of a packet, after which the class is passed on
\* whenever it could be served.
LEMMA PacketEnqueuedStep ==
  ASSUME ShaperInv, HandlePacketEnqueued
  PROVE  ShaperInv' /\ (GapInv => GapInv')
  <1>1. /\ selectionTurn' = (selectionTurn \/ PassesOn(credit'))
        /\ UNCHANGED <<queue, endSpendingCredit, idealCredit, gateStateChanged,
                       gateVars, macVars, arrivals, others, aborted>>
    BY DEF HandlePacketEnqueued
  <1>2. /\ credit \in Int /\ sinceEvent \in Nat /\ CreditPerBit \in Nat
        /\ credit > -(SendSlope * LongestPacket + CreditPerBit)
        /\ SendSlope * LongestPacket \in Nat
    BY SlopeIsNat, Longest, Cost DEF ShaperInv, NumbersOK, DebtIsBounded
  <1>3. Sendable' => PassesOn(credit')
    BY <1>1 DEF Sendable, PassesOn, gateVars
  <1>4. WakeUpInv'
    BY <1>1, <1>3 DEF WakeUpInv
  <1>5. CASE state = "Idle" /\ gateOpen
    <2>1. /\ state' = "EarnCredit" /\ reachedZeroCredit' = ZeroCreditAt(credit)
          /\ UNCHANGED <<credit, sinceEvent>>
      BY <1>5 DEF HandlePacketEnqueued
    <2>2. ZeroCreditAt(credit) \in Nat \cup {NotScheduled}
          /\ (IsCreditPositive(credit) => ZeroCreditAt(credit) = NotScheduled)
      BY <1>2 DEF ZeroCreditAt, IsCreditPositive
    <2>3. NumbersOK'
      BY <1>1, <1>2, <2>1, <2>2 DEF ShaperInv, NumbersOK, gateVars, macVars
    <2>4. TimersInv'
      BY <1>1, <1>5, <2>1 DEF ShaperInv, TimersInv, macVars
    <2>5. CreditIsExact'
      BY <1>1, <1>2, <1>5, <2>1 DEF ShaperInv, TimersInv, CreditIsExact, EarnedCredit
    <2>6. DebtIsBounded'
      BY <2>1 DEF ShaperInv, DebtIsBounded
    <2>7. GapInv => GapInv'
      BY <1>1, <2>1, <2>2 DEF GapInv
    <2>8. QED
      BY <1>1, <1>4, <2>3, <2>4, <2>5, <2>6, <2>7 DEF ShaperInv
  <1>6. CASE state = "EarnCredit"
    <2>1. /\ state' = state /\ credit' = EarnedCredit /\ sinceEvent' = 0
          /\ reachedZeroCredit' = ZeroCreditAt(EarnedCredit)
      BY <1>6 DEF HandlePacketEnqueued, RestartedEarning
    <2>2. EarnedCredit \in Int /\ EarnedCredit >= credit /\ idealCredit = EarnedCredit
      BY <1>2, <1>6 DEF EarnedCredit, ShaperInv, CreditIsExact
    <2>3. ZeroCreditAt(EarnedCredit) \in Nat \cup {NotScheduled}
          /\ (IsCreditPositive(EarnedCredit) => ZeroCreditAt(EarnedCredit) = NotScheduled)
      BY <1>2, <2>2 DEF ZeroCreditAt, IsCreditPositive
    <2>4. NumbersOK'
      BY <1>1, <1>2, <2>1, <2>2, <2>3 DEF ShaperInv, NumbersOK, gateVars, macVars
    <2>5. TimersInv'
      BY <1>1, <1>6, <2>1 DEF ShaperInv, TimersInv, macVars
    <2>6. CreditIsExact'
      BY <1>1, <1>6, <2>1, <2>2 DEF CreditIsExact, EarnedCredit
    <2>7. DebtIsBounded'
      BY <1>2, <2>1, <2>2 DEF DebtIsBounded
    <2>8. GapInv => GapInv'
      BY <1>1, <2>1, <2>3 DEF GapInv
    <2>9. QED
      BY <1>1, <1>4, <2>4, <2>5, <2>6, <2>7, <2>8 DEF ShaperInv
  <1>7. CASE UNCHANGED <<credit, state, sinceEvent, reachedZeroCredit>>
    <2>1. NumbersOK' /\ TimersInv'
      BY <1>1, <1>7 DEF ShaperInv, NumbersOK, TimersInv, gateVars, macVars
    <2>2. CreditIsExact' /\ DebtIsBounded'
      BY <1>1, <1>7 DEF ShaperInv, CreditIsExact, DebtIsBounded, EarnedCredit
    <2>3. GapInv => GapInv'
      BY <1>1, <1>7 DEF GapInv, macVars
    <2>4. QED
      BY <1>1, <1>4, <2>1, <2>2, <2>3 DEF ShaperInv
  <1>8. QED
    BY <1>5, <1>6, <1>7 DEF HandlePacketEnqueued

\* The end of a debt is the end of the wait, unless an assertion fails: then
\* the gate is closed, or there still is a debt.
LEMMA ZeroCreditReachedStep ==
  ASSUME ShaperInv, HandleZeroCreditReached
  PROVE  ShaperInv' /\ (GapInv => GapInv')
  <1>1. /\ reachedZeroCredit = 0 /\ reachedZeroCredit' = NotScheduled
        /\ UNCHANGED <<queue, state, endSpendingCredit, idealCredit,
                       packetEnqueued, gateStateChanged, gateVars, macVars,
                       arrivals, others>>
    BY DEF HandleZeroCreditReached
  <1>2. state = "EarnCredit"
    BY <1>1 DEF ShaperInv, TimersInv, NotScheduled
  <1>3. /\ credit \in Int /\ sinceEvent \in Nat /\ CreditPerBit \in Nat
        /\ credit > -(SendSlope * LongestPacket + CreditPerBit)
        /\ SendSlope * LongestPacket \in Nat
        /\ EarnedCredit \in Int /\ EarnedCredit >= credit
        /\ idealCredit = EarnedCredit
    BY <1>2, SlopeIsNat, Longest, Cost
    DEF ShaperInv, NumbersOK, DebtIsBounded, CreditIsExact, EarnedCredit
  <1>4. TimersInv'
    BY <1>1, <1>2 DEF ShaperInv, TimersInv, macVars
  <1>5. CASE gateOpen /\ IsCreditPositive(EarnedCredit)
    <2>1. /\ credit' = EarnedCredit /\ sinceEvent' = 0 /\ aborted' = aborted
          /\ selectionTurn' = (selectionTurn \/ PacketReady)
      BY <1>2, <1>5 DEF HandleZeroCreditReached
    <2>2. NumbersOK'
      BY <1>1, <1>3, <2>1 DEF ShaperInv, NumbersOK, gateVars, macVars
    <2>3. CreditIsExact'
      BY <1>1, <1>2, <1>3, <2>1 DEF CreditIsExact, EarnedCredit
    <2>4. DebtIsBounded'
      BY <1>3, <2>1 DEF DebtIsBounded
    <2>5. Sendable' => PacketReady
      BY <1>1 DEF Sendable, PacketReady
    <2>6. WakeUpInv'
      BY <2>1, <2>5 DEF WakeUpInv
    <2>7. QED
      BY <1>1, <1>4, <2>1, <2>2, <2>3, <2>4, <2>6 DEF ShaperInv, GapInv
  <1>6. CASE ~(gateOpen /\ IsCreditPositive(EarnedCredit))
    <2>1. /\ aborted' = "reachedZeroCredit"
          /\ UNCHANGED <<credit, sinceEvent, selectionTurn>>
      BY <1>6 DEF HandleZeroCreditReached
    <2>2. NumbersOK'
      BY <1>1, <1>3, <2>1 DEF ShaperInv, NumbersOK, gateVars, macVars
    <2>3. CreditIsExact' /\ DebtIsBounded'
      BY <1>1, <2>1 DEF ShaperInv, CreditIsExact, DebtIsBounded, EarnedCredit
    <2>4. ~Sendable'
      BY <1>1, <1>3, <1>6, <2>1 DEF Sendable, gateVars, IsCreditPositive
    <2>5. WakeUpInv'
      BY <2>4 DEF WakeUpInv
    <2>6. QED
      BY <1>1, <1>4, <2>1, <2>2, <2>3, <2>5 DEF ShaperInv, GapInv
  <1>7. QED
    BY <1>5, <1>6

\* When an instant is over nobody waits for a packet that could be sent, and
\* the next instant opens no new way.
LEMMA ElapseStep ==
  ASSUME ShaperInv, Elapse
  PROVE  ShaperInv' /\ (GapInv => GapInv')
  <1>1. /\ Priority0Quiet /\ ~selectionTurn
        /\ UNCHANGED <<queue, credit, state, eventVars, gateCloses, gateOpen,
                       requested, arrivals, others, aborted>>
    BY DEF Elapse, InstantOver
  <1>2. /\ credit \in Int /\ idealCredit \in Int /\ sinceEvent \in Nat
        /\ reachedZeroCredit \in Nat \cup {NotScheduled} /\ reachedZeroCredit # 0
        /\ endSpendingCredit \in Nat \cup {NotScheduled} /\ endSpendingCredit # 0
        /\ untilTick \in Nat /\ macBusy \in Nat
        /\ gateCloses => untilTick # 0
        /\ requested \/ macBusy # 0
    BY <1>1 DEF ShaperInv, NumbersOK, Priority0Quiet
  <1>3. /\ reachedZeroCredit' = Later(reachedZeroCredit)
        /\ endSpendingCredit' = Later(endSpendingCredit)
        /\ sinceEvent' = (IF state = "EarnCredit" THEN sinceEvent + 1 ELSE 0)
        /\ untilTick' = (IF gateCloses THEN untilTick - 1 ELSE untilTick)
        /\ macBusy' = (IF requested THEN macBusy ELSE macBusy - 1)
    BY DEF Elapse
  <1>4. /\ state = "EarnCredit" => idealCredit' = idealCredit + 1
        /\ state = "SpendCredit" => idealCredit' = idealCredit - SendSlope
        /\ state = "Idle" => idealCredit' = idealCredit
        /\ state \in {"Idle", "EarnCredit", "SpendCredit"}
        /\ idealCredit' \in Int
    BY <1>2, SlopeIsNat, SMTT(30) DEF Elapse, ShaperInv, NumbersOK
  <1>5. NumbersOK'
    BY <1>1, <1>2, <1>3, <1>4 DEF ShaperInv, NumbersOK, Later, NotScheduled
  <1>6. TimersInv'
    BY <1>1, <1>2, <1>3, TimesAssumption DEF ShaperInv, TimersInv, Later, NotScheduled
  <1>7. CreditIsExact'
    <2>1. CASE state = "SpendCredit"
      <3>1. endSpendingCredit \in Nat /\ endSpendingCredit' = endSpendingCredit - 1
        BY <1>2, <1>3, <2>1 DEF ShaperInv, TimersInv, Later, NotScheduled
      <3>2. idealCredit = credit + SendSlope * endSpendingCredit
        BY <2>1 DEF ShaperInv, CreditIsExact
      <3>3. /\ SendSlope * (endSpendingCredit - 1) = SendSlope * endSpendingCredit - SendSlope
            /\ SendSlope * endSpendingCredit \in Nat
        BY <3>1, Cost
      <3>4. idealCredit' = credit' + SendSlope * endSpendingCredit'
        BY <1>1, <1>2, <1>4, <2>1, <3>1, <3>2, <3>3, SlopeIsNat
      <3>5. QED
        BY <1>1, <2>1, <3>4 DEF CreditIsExact
    <2>2. CASE state = "EarnCredit"
      BY <1>1, <1>2, <1>3, <1>4, <2>2 DEF ShaperInv, CreditIsExact, EarnedCredit
    <2>3. CASE state = "Idle"
      BY <1>1, <1>4, <2>3 DEF ShaperInv, CreditIsExact
    <2>4. QED
      BY <1>4, <2>1, <2>2, <2>3
  <1>8. DebtIsBounded'
    BY <1>1 DEF ShaperInv, DebtIsBounded
  <1>9. WakeUpInv'
    <2>1. ~(requested /\ Sendable)
      BY <1>1, <1>2 DEF ShaperInv, WakeUpInv, Priority0Quiet
    <2>2. PacketReady /\ gateCloses => Head(queue) \in Nat
      <3>1. queue # <<>> => Head(queue) \in PacketSizes
        BY DEF ShaperInv, NumbersOK
      <3>2. QED
        BY <3>1, Longest DEF PacketReady
    <2>3. Sendable' => Sendable
      BY <1>1, <1>2, <1>3, <2>2 DEF Sendable, PacketReady
    <2>4. QED
      BY <1>1, <2>1, <2>3 DEF WakeUpInv
  <1>10. GapInv => GapInv'
    <2>1. SUFFICES ASSUME GapInv, reachedZeroCredit' # NotScheduled,
                          IsCreditPositive(credit)
                   PROVE  ~requested /\ reachedZeroCredit' <= macBusy'
      BY <1>1 DEF GapInv
    <2>2. reachedZeroCredit # NotScheduled /\ reachedZeroCredit' = reachedZeroCredit - 1
      BY <1>3, <2>1 DEF Later
    <2>3. ~requested /\ reachedZeroCredit <= macBusy
      BY <1>2, <2>1, <2>2 DEF GapInv
    <2>4. QED
      BY <1>2, <1>3, <2>2, <2>3 DEF NotScheduled
  <1>11. QED
    BY <1>1, <1>5, <1>6, <1>7, <1>8, <1>9, <1>10 DEF ShaperInv

\* The other steps leave the shaper's own variables alone.
LEMMA EnvironmentStep ==
  ASSUME ShaperInv,
         \/ \E bits \in PacketSizes : Arrive(bits)
         \/ \E bits \in OtherSizes : ServeOther(bits)
         \/ GateTick \/ ServeNothing \/ MacRequest \/ UNCHANGED vars
  PROVE  ShaperInv' /\ (GapInv => GapInv')
  <1>1. UNCHANGED <<shaperVars, aborted>>
    BY DEF Arrive, ServeOther, GateTick, ServeNothing, MacRequest, vars
  <1>2. CreditIsExact' /\ DebtIsBounded'
    BY <1>1 DEF ShaperInv, CreditIsExact, DebtIsBounded, EarnedCredit, shaperVars
  <1>3. ASSUME NEW bits \in PacketSizes, Arrive(bits)
        PROVE  ShaperInv' /\ (GapInv => GapInv')
    <2>1. NumbersOK'
      <3>1. queue \in Seq(PacketSizes) /\ queue' = Append(queue, bits)
        BY <1>3 DEF Arrive, ShaperInv, NumbersOK
      <3>2. queue' \in Seq(PacketSizes)
        BY <1>3, <3>1
      <3>3. arrivals' \in 0 .. MaxArrivals
        BY <1>3, BoundsAssumption DEF Arrive, ShaperInv, NumbersOK
      <3>4. QED
        BY <1>1, <1>3, <3>2, <3>3 DEF Arrive, ShaperInv, NumbersOK, shaperVars,
                                      gateVars, macVars
    <2>2. TimersInv' /\ WakeUpInv' /\ (GapInv => GapInv')
      BY <1>1, <1>3 DEF Arrive, ShaperInv, TimersInv, WakeUpInv, GapInv,
                        shaperVars, macVars
    <2>3. QED
      BY <1>1, <1>2, <2>1, <2>2 DEF ShaperInv
  <1>4. ASSUME NEW bits \in OtherSizes, ServeOther(bits)
        PROVE  ShaperInv' /\ (GapInv => GapInv')
    <2>1. bits \in Nat /\ bits > 0 /\ bits + InterframeGap \in Nat
      BY SizesAssumption, TimesAssumption
    <2>2. requested /\ ~requested' /\ macBusy' = bits + InterframeGap
          /\ reachedZeroCredit # 0 /\ reachedZeroCredit' = reachedZeroCredit
      BY <1>1, <1>4 DEF ServeOther, Priority0Quiet, shaperVars
    <2>3. NumbersOK'
      BY <1>1, <1>4, <2>1, BoundsAssumption
      DEF ServeOther, ShaperInv, NumbersOK, shaperVars, gateVars
    <2>4. TimersInv' /\ WakeUpInv'
      BY <1>1, <2>2 DEF ShaperInv, TimersInv, WakeUpInv, shaperVars
    <2>5. GapInv => GapInv'
      BY <1>1, <2>2 DEF GapInv, shaperVars
    <2>6. QED
      BY <1>1, <1>2, <2>3, <2>4, <2>5 DEF ShaperInv
  <1>5. CASE GateTick
    <2>1. NumbersOK'
      BY <1>1, <1>5, TimesAssumption
      DEF GateTick, ShaperInv, NumbersOK, shaperVars, macVars
    <2>2. TimersInv' /\ WakeUpInv' /\ (GapInv => GapInv')
      BY <1>1, <1>5 DEF GateTick, ShaperInv, TimersInv, WakeUpInv, GapInv,
                        shaperVars, macVars
    <2>3. QED
      BY <1>1, <1>2, <2>1, <2>2 DEF ShaperInv
  <1>6. CASE ServeNothing
    <2>1. NumbersOK' /\ TimersInv' /\ (GapInv => GapInv')
      BY <1>1, <1>6 DEF ServeNothing, ShaperInv, NumbersOK, TimersInv, GapInv,
                        shaperVars, gateVars, macVars
    <2>2. WakeUpInv'
      BY <1>1, <1>6 DEF ServeNothing, WakeUpInv, Sendable, PacketReady,
                        shaperVars, gateVars, macVars
    <2>3. QED
      BY <1>1, <1>2, <2>1, <2>2 DEF ShaperInv
  <1>7. CASE MacRequest
    <2>1. ~requested /\ macBusy = 0 /\ requested' /\ selectionTurn'
          /\ UNCHANGED <<queue, gateVars, macBusy, arrivals, others>>
      BY <1>7 DEF MacRequest
    <2>2. NumbersOK' /\ WakeUpInv'
      BY <1>1, <2>1 DEF ShaperInv, NumbersOK, WakeUpInv, shaperVars, gateVars
    <2>3. TimersInv'
      <3>1. state # "SpendCredit"
        BY <2>1, TimesAssumption DEF ShaperInv, NumbersOK, TimersInv, NotScheduled
      <3>2. QED
        BY <1>1, <2>1, <3>1 DEF ShaperInv, TimersInv, shaperVars
    <2>4. GapInv => GapInv'
      BY <1>1, <2>1 DEF ShaperInv, NumbersOK, GapInv, shaperVars, NotScheduled
    <2>5. QED
      BY <1>1, <1>2, <2>2, <2>3, <2>4 DEF ShaperInv
  <1>8. CASE UNCHANGED vars
    <2>1. NumbersOK' /\ TimersInv' /\ (GapInv => GapInv')
      BY <1>1, <1>8 DEF vars, ShaperInv, NumbersOK, TimersInv, GapInv,
                        shaperVars, gateVars, macVars
    <2>2. WakeUpInv'
      BY <1>1, <1>8 DEF vars, ShaperInv, WakeUpInv, Sendable, PacketReady,
                        shaperVars, gateVars, macVars, eventVars
    <2>3. QED
      BY <1>1, <1>2, <2>1, <2>2 DEF ShaperInv
  <1>9. QED
    BY <1>3, <1>4, <1>5, <1>6, <1>7, <1>8

LEMMA ShaperStep ==
  ShaperInv /\ [Next]_vars => ShaperInv' /\ (GapCoversABit /\ GapInv => GapInv')
  <1> SUFFICES ASSUME ShaperInv, [Next]_vars
               PROVE  ShaperInv' /\ (GapCoversABit /\ GapInv => GapInv')
    OBVIOUS
  <1>1. CASE ServeClass
    BY <1>1, ServeClassStep
  <1>2. CASE HandleEndSpendingCredit
    BY <1>2, EndSpendingStep
  <1>3. CASE HandleGateStateChanged
    BY <1>3, GateStateChangedStep
  <1>4. CASE HandlePacketEnqueued
    BY <1>4, PacketEnqueuedStep
  <1>5. CASE HandleZeroCreditReached
    BY <1>5, ZeroCreditReachedStep
  <1>6. CASE Elapse
    BY <1>6, ElapseStep
  <1>7. CASE \/ \E bits \in PacketSizes : Arrive(bits)
             \/ \E bits \in OtherSizes : ServeOther(bits)
             \/ GateTick \/ ServeNothing \/ MacRequest \/ UNCHANGED vars
    BY <1>7, EnvironmentStep
  <1>8. QED
    BY <1>1, <1>2, <1>3, <1>4, <1>5, <1>6, <1>7 DEF Next, EventLoop

-----------------------------------------------------------------------------
(* The theorems *)

\* The state of CreditBasedShaper, its self-messages and the MAC's progress
\* agree, whatever the schedule does to the gate.
THEOREM ShaperIsConsistent == Spec => []ShaperInv
  <1>1. QED
    BY ShaperInit, ShaperStep, PTL DEF Spec

\* updateState computes at its few events the credit that a clock which never
\* stops would show.
THEOREM CreditIsExactAlways == Spec => []CreditIsExact
  <1>1. ShaperInv => CreditIsExact
    BY DEF ShaperInv
  <1>2. QED
    BY ShaperIsConsistent, <1>1, PTL

\* handleSendPacketEvent never takes the class deeper into debt than one packet
\* of the greatest length, and less than a bit.
THEOREM DebtIsAlwaysBounded == Spec => []DebtIsBounded
  <1>1. ShaperInv => DebtIsBounded
    BY DEF ShaperInv
  <1>2. QED
    BY ShaperIsConsistent, <1>1, PTL

\* Between the events of the gate, of the queue and of the shaper's own
\* messages no wake-up of the transmission selection is lost.
THEOREM NoWakeUpIsLost == Spec => []WorkConserving
  <1>1. ShaperInv => WorkConserving
    BY DEF ShaperInv, WakeUpInv, WorkConserving, InstantOver, Priority0Quiet
  <1>2. QED
    BY ShaperIsConsistent, <1>1, PTL

\* The assertions of handleSendPacketEvent and handleEndSpendingCreditEvent
\* hold if the class earns the worth of a bit between two frames.  Without that
\* a credit less than a bit short lets a packet pass whose predecessor's debt
\* is still awaited.
THEOREM SendingIsAlwaysSound == GapCoversABit /\ Spec => []SendingIsSound
  <1> SUFFICES ASSUME GapCoversABit PROVE Spec => []SendingIsSound
    OBVIOUS
  <1>1. GapInv /\ ShaperInv => SendingIsSound
    BY DEF GapInv, ShaperInv, SendingIsSound
  <1>2. ShaperInv /\ GapInv /\ [Next]_vars => GapInv'
    BY ShaperStep
  <1>3. QED
    BY ShaperInit, ShaperIsConsistent, <1>1, <1>2, PTL DEF Spec
=============================================================================
