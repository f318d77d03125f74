----------------------------- MODULE SwapProofs -----------------------------
(***************************************************************************)
(* Proofs about ScheduleSwap, for any plans: the traffic generator keeps   *)
(* to its timetable, every part of a device takes what it was given within *)
(* one of its own cycles, and the cycles of gates, host and database keep  *)
(* in step as long as the plan does not change their length.               *)
(***************************************************************************)
EXTENDS ScheduleSwap, GateControllerProofs

-----------------------------------------------------------------------------
(* Host schedules *)

LEMMA SmallRemainder ==
  ASSUME NEW r \in Nat \ {0}, NEW n \in 0 .. r - 1
  PROVE  n % r = n
OBVIOUS

\* The times of an ordered schedule are numbers of its cycle, and ascend.
LEMMA TimesInCycle ==
  ASSUME NEW s \in HostSchedules, IsOrdered(s)
  PROVE  /\ s.cycle \in 1 .. UnsignedRange - 1
         /\ Size(s) \in Nat
         /\ \A i \in 0 .. Size(s) - 1 :
              /\ Time(s, i) \in 0 .. UnsignedRange - 1
              /\ Time(s, i) <= s.cycle
              /\ ScheduledObject(s, i) \in HostFrame
              /\ i > 0 => Time(s, i - 1) <= Time(s, i)
<1> DEFINE n == Size(s)
<1>1. s.cycle \in 1 .. UnsignedRange - 1 /\ s.entries \in Seq(HostEntry)
  BY DEF HostSchedules
<1>2. n \in Nat
  BY <1>1 DEF Size
<1>3. ASSUME NEW i \in 0 .. n - 1
      PROVE  /\ Time(s, i) \in 0 .. UnsignedRange - 1
             /\ ScheduledObject(s, i) \in HostFrame
  <2>1. s.entries[i + 1] \in HostEntry
    BY <1>1, <1>2 DEF Size
  <2> QED
    BY <2>1 DEF Time, ScheduledObject, HostEntry
<1>4. ASSUME NEW i \in 1 .. n - 1
      PROVE  Time(s, i - 1) <= Time(s, i)
  BY DEF IsOrdered
<1> HIDE DEF n
<1>5. CASE n = 0
  BY <1>1, <1>2, <1>5 DEF n
<1>6. CASE n # 0
  <2> DEFINE T == {k \in 0 .. n - 1 : Time(s, n - 1 - k) <= s.cycle}
  <2>1. Time(s, n - 1) <= s.cycle
    BY <1>2, <1>6 DEF IsOrdered, n
  <2>2. 0 \in T
    BY <1>2, <1>6, <2>1
  <2>3. ASSUME NEW k \in 1 .. n - 1, k - 1 \in T
        PROVE  k \in T
    <3>1. /\ n - 1 - (k - 1) \in 1 .. n - 1 /\ n - 1 - (k - 1) \in 0 .. n - 1
          /\ n - 1 - k = n - 1 - (k - 1) - 1 /\ n - 1 - k \in 0 .. n - 1
      BY <1>2
    <3>2. Time(s, n - 1 - k) <= Time(s, n - 1 - (k - 1))
      BY <1>4, <3>1
    <3>3. Time(s, n - 1 - (k - 1)) <= s.cycle
      BY <2>3
    <3>4. Time(s, n - 1 - k) \in Int /\ Time(s, n - 1 - (k - 1)) \in Int /\ s.cycle \in Int
      BY <1>1, <1>3, <3>1
    <3> QED
      BY <1>2, <3>1, <3>2, <3>3, <3>4
  <2>4. T \in SUBSET (0 .. n - 1)
    OBVIOUS
  <2>5. n - 1 \in Nat
    BY <1>2, <1>6
  <2>6. T = 0 .. n - 1
    <3> HIDE DEF T
    <3> QED
      BY <2>2, <2>3, <2>4, <2>5, Induction
  <2>7. ASSUME NEW i \in 0 .. n - 1
        PROVE  Time(s, i) <= s.cycle
    <3>1. n - 1 - i \in 0 .. n - 1 /\ n - 1 - (n - 1 - i) = i
      BY <1>2
    <3>2. n - 1 - i \in T
      BY <2>6, <3>1
    <3> QED
      BY <3>1, <3>2
  <2>8. ASSUME NEW i \in 0 .. n - 1, i > 0
        PROVE  Time(s, i - 1) <= Time(s, i)
    BY <1>2, <1>4, <2>8
  <2> QED
    BY <1>1, <1>2, <1>3, <2>7, <2>8 DEF n
<1> QED
  BY <1>5, <1>6

\* When an entry, or the end of the cycle, is due.
Due(s, i) == IF i = Size(s) THEN s.cycle ELSE Time(s, i)

\* The generator sleeps from one of them to the next: the differences do not
\* wrap around.
LEMMA SleepsTheDifference ==
  ASSUME NEW s \in HostSchedules, IsOrdered(s), NEW i \in 0 .. Size(s)
  PROVE  /\ Due(s, i) \in 0 .. s.cycle
         /\ TicksUntilEvent(s, i) \in Nat
         /\ Due(s, i) - TicksUntilEvent(s, i) = IF i = 0 THEN 0 ELSE Time(s, i - 1)
<1> DEFINE r == UnsignedRange
           from == IF i = 0 THEN 0 ELSE Time(s, i - 1)
<1>1. /\ s.cycle \in 1 .. r - 1 /\ Size(s) \in Nat /\ r \in Nat \ {0}
      /\ \A k \in 0 .. Size(s) - 1 :
           /\ Time(s, k) \in 0 .. r - 1 /\ Time(s, k) <= s.cycle
           /\ k > 0 => Time(s, k - 1) <= Time(s, k)
  BY TimesInCycle, UnsignedRangeAssumption
<1>2. i = Size(s) \/ i \in 0 .. Size(s) - 1
  BY <1>1
<1>3. i # 0 => i - 1 \in 0 .. Size(s) - 1
  BY <1>1
<1>4. Due(s, i) \in 0 .. s.cycle /\ Due(s, i) \in 0 .. r - 1
  BY <1>1, <1>2 DEF Due
<1>5. from \in 0 .. r - 1 /\ from <= s.cycle
  BY <1>1, <1>3
<1>6. from <= Due(s, i)
  <2>1. CASE i = 0
    BY <1>4, <2>1
  <2>2. CASE i # 0 /\ i = Size(s)
    BY <1>1, <1>3, <2>2 DEF Due
  <2>3. CASE i # 0 /\ i # Size(s)
    BY <1>1, <1>2, <1>3, <2>3 DEF Due
  <2> QED
    BY <2>1, <2>2, <2>3
<1>7. TicksUntilEvent(s, i) = (Due(s, i) - from) % r
  <2>1. Size(s) = 0 => i = 0
    BY <1>1
  <2>2. CASE Size(s) = 0
    BY <2>1, <2>2, <1>1 DEF TicksUntilEvent, Due
  <2>3. CASE Size(s) # 0 /\ i = Size(s)
    BY <2>3 DEF TicksUntilEvent, Due
  <2>4. CASE i # Size(s) /\ i = 0
    BY <2>4, <1>1, <1>2 DEF TicksUntilEvent, Due
  <2>5. CASE i # Size(s) /\ i # 0
    BY <2>1, <2>5 DEF TicksUntilEvent, Due
  <2> QED
    BY <2>2, <2>3, <2>4, <2>5
<1> HIDE DEF from
<1>8. Due(s, i) - from \in 0 .. r - 1
  BY <1>1, <1>4, <1>5, <1>6
<1>9. (Due(s, i) - from) % r = Due(s, i) - from
  BY <1>1, <1>8, SmallRemainder
<1>10. TicksUntilEvent(s, i) = Due(s, i) - from
  BY <1>7, <1>9
<1>11. TicksUntilEvent(s, i) \in Nat /\ Due(s, i) - TicksUntilEvent(s, i) = from
  BY <1>1, <1>4, <1>5, <1>8, <1>10
<1> QED
  BY <1>4, <1>11 DEF from

-----------------------------------------------------------------------------
(* The traffic generator *)

\* A position from which the next entry, or the end of the cycle, is reached by
\* sleeping.
GeneratorInv ==
  /\ hostSchedule \in HostSchedules /\ IsOrdered(hostSchedule)
  /\ \/ nextHostSchedule = NoHostSchedule
     \/ nextHostSchedule \in HostSchedules /\ IsOrdered(nextHostSchedule)
  /\ index \in 0 .. Size(hostSchedule)
  /\ untilSend \in Nat
  /\ HostPosition \in Nat

LEMMA HostPositionIsDue ==
  ASSUME GeneratorInv
  PROVE  /\ HostPosition = Due(hostSchedule, index) - untilSend
         /\ Due(hostSchedule, index) \in 0 .. hostSchedule.cycle
         /\ hostSchedule.cycle \in 1 .. UnsignedRange - 1
         /\ HostPosition \in 0 .. hostSchedule.cycle
<1>1. HostPosition = Due(hostSchedule, index) - untilSend
  BY DEF HostPosition, Due, CycleIsOver
<1>2. Due(hostSchedule, index) \in 0 .. hostSchedule.cycle
  BY SleepsTheDifference DEF GeneratorInv
<1>3. hostSchedule.cycle \in 1 .. UnsignedRange - 1
  BY TimesInCycle DEF GeneratorInv
<1> QED
  BY <1>1, <1>2, <1>3, UnsignedRangeAssumption DEF GeneratorInv

LEMMA NoHostScheduleIsNone == NoHostSchedule \notin HostSchedules
BY UnsignedRangeAssumption DEF NoHostSchedule, HostSchedules

LEMMA GeneratorInitInv ==
  ASSUME NEW s \in HostSchedules, IsOrdered(s), GeneratorInit(s)
  PROVE  GeneratorInv /\ HostPosition = 0
<1>1. 0 \in 0 .. Size(s)
  BY TimesInCycle
<1>2. TicksUntilEvent(s, 0) \in Nat /\ Due(s, 0) - TicksUntilEvent(s, 0) = 0
  BY <1>1, SleepsTheDifference
<1>3. HostPosition = Due(s, 0) - TicksUntilEvent(s, 0)
  BY DEF GeneratorInit, HostPosition, Due, CycleIsOver
<1> QED
  BY <1>1, <1>2, <1>3 DEF GeneratorInv, GeneratorInit

LEMMA StartCycleInv ==
  ASSUME GeneratorInv, StartCycle
  PROVE  /\ GeneratorInv'
         /\ HostPosition = hostSchedule.cycle /\ HostPosition' = 0
<1> DEFINE s == hostSchedule'
<1>1. s \in HostSchedules /\ IsOrdered(s)
  BY DEF GeneratorInv, StartCycle
<1>2. nextHostSchedule' = NoHostSchedule /\ index' = 0 /\ untilSend' = TicksUntilEvent(s, 0)
  BY DEF StartCycle
<1> HIDE DEF s
<1>3. 0 \in 0 .. Size(s)
  BY <1>1, TimesInCycle
<1>4. TicksUntilEvent(s, 0) \in Nat /\ Due(s, 0) - TicksUntilEvent(s, 0) = 0
  BY <1>1, <1>3, SleepsTheDifference
<1>5. HostPosition' = Due(s, 0) - TicksUntilEvent(s, 0)
  BY <1>2 DEF HostPosition, Due, CycleIsOver, s
<1>6. HostPosition = hostSchedule.cycle
  <2>1. untilSend = 0 /\ index = Size(hostSchedule)
    BY DEF StartCycle, CycleIsOver
  <2>2. hostSchedule.cycle \in Nat
    BY HostPositionIsDue
  <2> QED
    BY <2>1, <2>2, HostPositionIsDue DEF Due
<1> QED
  BY <1>1, <1>2, <1>3, <1>4, <1>5, <1>6 DEF GeneratorInv, s

LEMMA SendPacketInv ==
  ASSUME GeneratorInv, SendPacket
  PROVE  /\ GeneratorInv'
         /\ HostPosition = Time(hostSchedule, index) /\ HostPosition' = HostPosition
         /\ index \in 0 .. Size(hostSchedule) - 1
<1> DEFINE s == hostSchedule
<1>1. s \in HostSchedules /\ IsOrdered(s) /\ index \in 0 .. Size(s) /\ Size(s) \in Nat
  BY TimesInCycle DEF GeneratorInv
<1>2. /\ untilSend = 0 /\ index # Size(s) /\ index' = index + 1
      /\ untilSend' = TicksUntilEvent(s, index + 1)
      /\ UNCHANGED <<hostSchedule, nextHostSchedule>>
  BY DEF SendPacket, CycleIsOver
<1>3. index \in 0 .. Size(s) - 1 /\ index + 1 \in 0 .. Size(s) /\ index + 1 # 0
      /\ index + 1 - 1 = index
  BY <1>1, <1>2
<1>4. Time(s, index) \in Nat
  BY <1>1, <1>3, TimesInCycle
<1> HIDE DEF s
<1>5. /\ TicksUntilEvent(s, index + 1) \in Nat
      /\ Due(s, index + 1) - TicksUntilEvent(s, index + 1) = Time(s, index)
  BY <1>1, <1>3, SleepsTheDifference
<1>6. HostPosition' = Due(s, index + 1) - TicksUntilEvent(s, index + 1)
  BY <1>2 DEF HostPosition, Due, CycleIsOver, s
<1>7. HostPosition = Time(s, index)
  BY <1>2, <1>4, HostPositionIsDue DEF Due, s
<1> QED
  BY <1>1, <1>2, <1>3, <1>4, <1>5, <1>6, <1>7 DEF GeneratorInv, s

LEMMA GeneratorElapseInv ==
  ASSUME GeneratorInv, GeneratorElapse
  PROVE  /\ GeneratorInv'
         /\ HostPosition' = HostPosition + 1
         /\ HostPosition < Due(hostSchedule, index)
<1>1. /\ untilSend # 0 /\ untilSend' = untilSend - 1
      /\ UNCHANGED <<hostSchedule, nextHostSchedule, index, lastFrame>>
  BY DEF GeneratorElapse
<1>2. untilSend \in Nat /\ HostPosition \in Nat
  BY DEF GeneratorInv
<1>3. HostPosition' = Due(hostSchedule, index) - (untilSend - 1)
  BY <1>1 DEF HostPosition, Due, CycleIsOver
<1>4. /\ HostPosition = Due(hostSchedule, index) - untilSend
      /\ Due(hostSchedule, index) \in Int
  BY HostPositionIsDue
<1> QED
  BY <1>1, <1>2, <1>3, <1>4 DEF GeneratorInv

LEMMA LoadHostScheduleInv ==
  ASSUME GeneratorInv, NEW s \in HostSchedules, IsOrdered(s), LoadHostSchedule(s)
  PROVE  GeneratorInv' /\ HostPosition' = HostPosition
BY DEF GeneratorInv, LoadHostSchedule, HostPosition, CycleIsOver

LEMMA GeneratorIdle ==
  ASSUME UNCHANGED generatorVars
  PROVE  (GeneratorInv => GeneratorInv') /\ HostPosition' = HostPosition
BY DEF generatorVars, GeneratorInv, HostPosition, CycleIsOver

-----------------------------------------------------------------------------
(* The timetable *)

\* The timetable's module has these operators once more.
LEMMA SameHostOperators ==
  /\ Table!HostSchedules = HostSchedules
  /\ Table!NoHostSchedule = NoHostSchedule
  /\ \A s : Table!Size(s) = Size(s)
  /\ \A s, i : Table!Time(s, i) = Time(s, i)
  /\ \A s, i : Table!ScheduledObject(s, i) = ScheduledObject(s, i)
BY DEF Table!HostSchedules, HostSchedules, Table!HostEntry, HostEntry,
       Table!NoHostSchedule, NoHostSchedule, Table!Size, Size, Table!Time, Time,
       Table!ScheduledObject, ScheduledObject

LEMMA StartCycleImplements ==
  ASSUME GeneratorInv, StartCycle
  PROVE  Table!Restart
<1>1. HostPosition = hostSchedule.cycle /\ HostPosition' = 0
  BY StartCycleInv
<1> QED
  BY <1>1, SameHostOperators DEF StartCycle, CycleIsOver, Table!Restart

LEMMA SendPacketImplements ==
  ASSUME GeneratorInv, SendPacket
  PROVE  Table!Send
<1>1. /\ HostPosition = Time(hostSchedule, index) /\ HostPosition' = HostPosition
      /\ index \in 0 .. Size(hostSchedule) - 1
  BY SendPacketInv
<1>2. Size(hostSchedule) \in Nat
  BY TimesInCycle DEF GeneratorInv
<1>3. index < Size(hostSchedule)
  BY <1>1, <1>2
<1> QED
  BY <1>1, <1>3, SameHostOperators DEF SendPacket, Table!Send

LEMMA GeneratorElapseImplements ==
  ASSUME GeneratorInv, GeneratorElapse
  PROVE  Table!Pass
<1>1. HostPosition' = HostPosition + 1 /\ HostPosition < Due(hostSchedule, index)
  BY GeneratorElapseInv
<1>2. /\ Due(hostSchedule, index) \in 0 .. hostSchedule.cycle
      /\ hostSchedule.cycle \in Nat /\ HostPosition \in Nat
  BY HostPositionIsDue DEF GeneratorInv
<1>3. HostPosition < hostSchedule.cycle
  BY <1>1, <1>2
<1>4. index < Size(hostSchedule) => HostPosition < Time(hostSchedule, index)
  <2>1. Size(hostSchedule) \in Nat /\ index \in Int
    BY TimesInCycle DEF GeneratorInv
  <2> QED
    BY <1>1, <2>1 DEF Due
<1> QED
  BY <1>1, <1>3, <1>4, SameHostOperators DEF GeneratorElapse, Table!Pass

LEMMA LoadHostScheduleImplements ==
  ASSUME GeneratorInv, NEW s \in HostSchedules, IsOrdered(s), LoadHostSchedule(s)
  PROVE  Table!Request
<1>1. HostPosition' = HostPosition
  BY LoadHostScheduleInv
<1> QED
  BY <1>1, SameHostOperators DEF LoadHostSchedule, Table!Request

LEMMA GeneratorIdleImplements ==
  ASSUME UNCHANGED generatorVars
  PROVE  UNCHANGED Table!vars
<1>1. HostPosition' = HostPosition
  BY GeneratorIdle
<1> QED
  BY <1>1 DEF generatorVars, Table!vars

-----------------------------------------------------------------------------
(* Plans *)

\* What a configuration of a plan is.
Configuration(k) ==
  /\ k.cycle \in Nat \ {0}
  /\ k.gates \in Schedule /\ ~IsEmpty(k.gates) /\ k.gates # NoSchedule
  /\ k.host \in HostSchedules /\ IsOrdered(k.host) /\ k.host # NoHostSchedule

PlanInv ==
  /\ plan \in Plans
  /\ scheduleSwap \in [Device -> [index : 0 .. Len(plan.swaps), until : Int]]
  /\ sinceLoad \in [Device -> Nat]

LEMMA PlanFacts ==
  ASSUME plan \in Plans
  PROVE  /\ Len(plan.swaps) \in Nat
         /\ Configuration(plan.initial)
         /\ \A i \in 1 .. Len(plan.swaps) :
              /\ plan.swaps[i].length \in Nat
              /\ Loads(plan.swaps[i]) => Configuration(plan.swaps[i].configuration)
<1> DEFINE entries == {plan.swaps[i] : i \in 1 .. Len(plan.swaps)}
           swapped == {e.configuration : e \in entries}
<1>1. /\ plan.swaps \in Seq(entries)
      /\ \A e \in entries : e.length \in Nat
      /\ \A k \in {plan.initial} \cup (swapped \ {NoSchedule}) :
           /\ k.gates \in Schedule \ {<<>>}
           /\ k.host \in HostSchedules
           /\ {k.cycle, CycleLength(k.gates), k.host.cycle} \subseteq 1 .. LongestCycle
           /\ IsOrdered(k.host)
  BY PlansAssumption
<1>2. ASSUME NEW k \in {plan.initial} \cup (swapped \ {NoSchedule})
      PROVE  Configuration(k)
  <2>1. k.cycle \in Nat \ {0}
    BY <1>1
  <2>2. k.gates # NoSchedule
    BY <1>1, NoScheduleAssumption
  <2>3. k.host # NoHostSchedule
    BY <1>1, NoHostScheduleIsNone
  <2> QED
    BY <1>1, <2>1, <2>2, <2>3 DEF Configuration, IsEmpty
<1>3. Len(plan.swaps) \in Nat
  BY <1>1
<1>4. ASSUME NEW i \in 1 .. Len(plan.swaps)
      PROVE  /\ plan.swaps[i].length \in Nat
             /\ Loads(plan.swaps[i]) =>
                  plan.swaps[i].configuration \in swapped \ {NoSchedule}
  <2>1. plan.swaps[i] \in entries
    OBVIOUS
  <2> QED
    BY <1>1, <2>1 DEF Loads
<1> QED
  BY <1>2, <1>3, <1>4

\* The latest of a set of swaps is the one just made, if it is among them.
LEMMA LatestIsLast ==
  ASSUME NEW n \in Nat \ {0}, NEW S \in SUBSET (1 .. n), n \in S
  PROVE  Latest(S) = n
<1>1. n \in S \cup {0} /\ \A j \in S : j <= n
  OBVIOUS
<1>2. ASSUME NEW i \in S \cup {0}, \A j \in S : j <= i
      PROVE  i = n
  BY <1>2
<1> QED
  BY <1>1, <1>2 DEF Latest

LEMMA NothingIsLatest == Latest({}) = 0
BY DEF Latest

LEMMA ConfigurationBefore ==
  ASSUME plan \in Plans
  PROVE  /\ ConfigurationAfter(0) = plan.initial
         /\ RoutingAfter(0) = plan.routing
<1>1. /\ {j \in 1 .. 0 : Loads(plan.swaps[j])} = {}
      /\ {j \in 1 .. 0 : NamesRouting(plan.swaps[j])} = {}
  OBVIOUS
<1>2. Latest({j \in 1 .. 0 : Loads(plan.swaps[j])}) = 0
  BY <1>1, NothingIsLatest
<1>3. Latest({j \in 1 .. 0 : NamesRouting(plan.swaps[j])}) = 0
  BY <1>1, NothingIsLatest
<1> QED
  BY <1>2, <1>3 DEF ConfigurationAfter, RoutingAfter

\* One swap more.
LoadsUpTo(n) == {j \in 1 .. n : Loads(plan.swaps[j])}
RoutingsUpTo(n) == {j \in 1 .. n : NamesRouting(plan.swaps[j])}

LEMMA ConfigurationAfterSwap ==
  ASSUME NEW n \in Nat \ {0}
  PROVE  /\ ConfigurationAfter(n) = IF Loads(plan.swaps[n])
                                     THEN plan.swaps[n].configuration
                                     ELSE ConfigurationAfter(n - 1)
         /\ RoutingAfter(n) = IF NamesRouting(plan.swaps[n])
                                THEN plan.swaps[n].routing
                                ELSE RoutingAfter(n - 1)
<1> DEFINE k(i) == IF i = 0 THEN plan.initial ELSE plan.swaps[i].configuration
           r(i) == IF i = 0 THEN plan.routing ELSE plan.swaps[i].routing
<1>1. 1 .. n = 1 .. (n - 1) \cup {n}
  OBVIOUS
<1>2. \A m : ConfigurationAfter(m) = k(Latest(LoadsUpTo(m)))
  BY DEF ConfigurationAfter, LoadsUpTo
<1>3. \A m : RoutingAfter(m) = r(Latest(RoutingsUpTo(m)))
  BY DEF RoutingAfter, RoutingsUpTo
<1>4. k(n) = plan.swaps[n].configuration /\ r(n) = plan.swaps[n].routing
  OBVIOUS
<1> HIDE DEF k, r
<1>5. ASSUME Loads(plan.swaps[n])
      PROVE  ConfigurationAfter(n) = plan.swaps[n].configuration
  <2>1. LoadsUpTo(n) \in SUBSET (1 .. n) /\ n \in LoadsUpTo(n)
    BY <1>5 DEF LoadsUpTo
  <2>2. Latest(LoadsUpTo(n)) = n
    BY <2>1, LatestIsLast
  <2> QED
    BY <1>2, <1>4, <1>5, <2>2
<1>6. ASSUME ~Loads(plan.swaps[n])
      PROVE  ConfigurationAfter(n) = ConfigurationAfter(n - 1)
  <2>1. LoadsUpTo(n) = LoadsUpTo(n - 1)
    BY <1>1, <1>6 DEF LoadsUpTo
  <2> QED
    BY <1>2, <1>6, <2>1
<1>7. ASSUME NamesRouting(plan.swaps[n])
      PROVE  RoutingAfter(n) = plan.swaps[n].routing
  <2>1. RoutingsUpTo(n) \in SUBSET (1 .. n) /\ n \in RoutingsUpTo(n)
    BY <1>7 DEF RoutingsUpTo
  <2>2. Latest(RoutingsUpTo(n)) = n
    BY <2>1, LatestIsLast
  <2> QED
    BY <1>3, <1>4, <1>7, <2>2
<1>8. ASSUME ~NamesRouting(plan.swaps[n])
      PROVE  RoutingAfter(n) = RoutingAfter(n - 1)
  <2>1. RoutingsUpTo(n) = RoutingsUpTo(n - 1)
    BY <1>1, <1>8 DEF RoutingsUpTo
  <2> QED
    BY <1>3, <1>8, <2>1
<1>9. ConfigurationAfter(n) = IF Loads(plan.swaps[n])
                                THEN plan.swaps[n].configuration
                                ELSE ConfigurationAfter(n - 1)
  BY <1>5, <1>6
<1>10. RoutingAfter(n) = IF NamesRouting(plan.swaps[n])
                           THEN plan.swaps[n].routing
                           ELSE RoutingAfter(n - 1)
  BY <1>7, <1>8
<1> QED
  BY <1>9, <1>10

-----------------------------------------------------------------------------
(* The gate controller of the switch *)

LEMMA EmptyCycle == <<>> \in Schedule /\ CycleLength(<<>>) = 0
<1>1. <<>> \in Schedule /\ Len(<<>>) = 0
  BY EmptySeq DEF Schedule
<1> QED
  BY <1>1, Starts DEF CycleLength

LEMMA PositionInCycle ==
  ASSUME ControllerInv
  PROVE  /\ Position \in Nat /\ CycleLength(currentSchedule) \in Nat
         /\ Position <= CycleLength(currentSchedule)
<1> DEFINE s == currentSchedule
<1>1. CASE IsEmpty(s)
  BY <1>1, EmptyCycle DEF IsEmpty, Position
<1>2. CASE ~IsEmpty(s)
  <2>1. /\ s \in Schedule /\ Len(s) \in Nat \ {0} /\ untilTick \in Nat
    BY <1>2, NonEmptySchedule DEF ControllerInv, EntryInv
  <2>2. /\ CurrentIndex \in 0 .. Len(s) - 1
        /\ StartOf(s, CurrentIndex + 1) = Position + untilTick
        /\ Position \in Nat
    BY <1>2, PositionInEntry
  <2>3. CurrentIndex + 1 \in 0 .. Len(s) /\ Len(s) \in 0 .. Len(s)
        /\ CurrentIndex + 1 <= Len(s)
    BY <2>1, <2>2
  <2>4. StartOf(s, CurrentIndex + 1) <= StartOf(s, Len(s))
    BY <2>1, <2>3, StartsAscend
  <2>5. StartOf(s, Len(s)) \in Int
    BY <2>1, <2>3, Starts
  <2> QED
    BY <2>1, <2>2, <2>4, <2>5 DEF CycleLength
<1> QED
  BY <1>1, <1>2

\* At a tick the position is the start of the entry that begins, or the end of
\* the cycle, from which it falls back to the start.
LEMMA TickEntryPosition ==
  ASSUME ControllerInv, TickEntry
  PROVE  IF scheduleIndex = 0
           THEN Position = CycleLength(currentSchedule) /\ Position' = 0
           ELSE Position' = Position /\ UNCHANGED <<currentSchedule, nextSchedule>>
<1> DEFINE s == currentSchedule'
           i == scheduleIndex
<1>1. /\ s \in Schedule /\ ~IsEmpty(s) /\ i \in 0 .. Len(s) - 1
      /\ s = TickSchedule /\ nextSchedule' = TickNextSchedule
      /\ CurrentIndex' = i /\ sinceLastChange' = 0
  BY TickEntryInv
<1>2. StartOf(s, i) \in Int /\ StartOf(s, 0) = 0
  <2>1. i \in 0 .. Len(s)
    BY <1>1, NonEmptySchedule
  <2> QED
    BY <1>1, <2>1, Starts
<1>3. Position' = StartOf(s, i)
  <2>1. Position' = StartOf(s, CurrentIndex') + sinceLastChange'
    BY <1>1 DEF Position
  <2> QED
    BY <1>1, <1>2, <2>1
<1>4. untilTick = 0
  BY DEF TickEntry
<1>5. CASE scheduleIndex = 0
  BY <1>2, <1>3, <1>4, <1>5, PositionAtTick
<1>6. CASE scheduleIndex # 0
  <2>1. UNCHANGED <<currentSchedule, nextSchedule>>
    BY <1>1, <1>6 DEF TickSchedule, TickNextSchedule, SwapsSchedule
  <2>2. Position = StartOf(currentSchedule, scheduleIndex)
    BY <1>4, <1>6, PositionAtTick
  <2> QED
    BY <1>3, <1>6, <2>1, <2>2
<1> QED
  BY <1>5, <1>6

LEMMA ControllerElapsePosition ==
  ASSUME ControllerInv, ~IsEmpty(currentSchedule), ControllerElapse
  PROVE  Position' = Position + 1
<1>1. UNCHANGED <<currentSchedule, nextSchedule, scheduleIndex, gateOpen>>
  BY DEF ControllerElapse
<1>2. CurrentIndex' = CurrentIndex
  BY <1>1 DEF CurrentIndex
<1>3. untilTick \in Nat /\ sinceLastChange \in Nat
  BY DEF ControllerInv, EntryInv
<1>4. sinceLastChange' = sinceLastChange + 1
  BY <1>3, NeverIsNoTime DEF ControllerElapse
<1>5. /\ Position = StartOf(currentSchedule, CurrentIndex) + sinceLastChange
      /\ StartOf(currentSchedule, CurrentIndex) \in Nat
  BY PositionInEntry
<1>6. Position' = StartOf(currentSchedule, CurrentIndex) + (sinceLastChange + 1)
  BY <1>1, <1>2, <1>4 DEF Position
<1> QED
  BY <1>3, <1>5, <1>6

LEMMA LoadSchedulePosition ==
  ASSUME NEW s, LoadSchedule(s)
  PROVE  Position' = Position
BY DEF LoadSchedule, Position, CurrentIndex

LEMMA ControllerIdle ==
  ASSUME UNCHANGED controllerVars
  PROVE  (ControllerInv => ControllerInv') /\ Position' = Position
BY DEF controllerVars, ControllerInv, IdleInv, EntryInv, Position, CurrentIndex

-----------------------------------------------------------------------------
(* The clock's list *)

Listener == {"gates", "database", "generator", "swap"}

\* The database of the switch always has a tick to come.
ListenersInv ==
  /\ order \in [Device -> Seq(Listener)]
  /\ \E i \in 1 .. Len(order["switch"]) : order["switch"][i] = "database"

\* A list without a listener of it: Others of a list.
Without(o, l) ==
  LET i == CHOOSE i \in DOMAIN o : o[i] = l
  IN  SubSeq(o, 1, i - 1) \o SubSeq(o, i + 1, Len(o))

\* A listener that is taken off the list leaves the others on it.
LEMMA OthersStay ==
  ASSUME NEW o \in Seq(Listener), NEW l \in Listener,
         \E i \in 1 .. Len(o) : o[i] = l
  PROVE  /\ Without(o, l) \in Seq(Listener)
         /\ \A k \in Listener :
              k # l /\ (\E j \in 1 .. Len(o) : o[j] = k)
                => \E j \in 1 .. Len(Without(o, l)) : Without(o, l)[j] = k
<1>1. DOMAIN o = 1 .. Len(o) /\ Len(o) \in Nat
  OBVIOUS
<1> DEFINE i == CHOOSE i \in DOMAIN o : o[i] = l
<1>2. i \in 1 .. Len(o) /\ o[i] = l
  BY <1>1
<1> HIDE DEF i
<1> DEFINE before == SubSeq(o, 1, i - 1)
           after == SubSeq(o, i + 1, Len(o))
           rest == before \o after
<1>3. /\ before \in Seq(Listener) /\ Len(before) = i - 1
      /\ \A j \in 1 .. i - 1 : before[j] = o[j]
  BY <1>1, <1>2
<1>4. /\ after \in Seq(Listener) /\ Len(after) = Len(o) - i
      /\ \A j \in 1 .. Len(o) - i : after[j] = o[i + j]
  <2>1. /\ i + 1 \in 1 .. Len(o) + 1 /\ Len(o) \in (i + 1) - 1 .. Len(o)
        /\ Len(o) - (i + 1) + 1 = Len(o) - i
        /\ \A j \in 1 .. Len(o) - i : (i + 1) + j - 1 = i + j
    BY <1>1, <1>2
  <2>2. /\ SubSeq(o, i + 1, Len(o)) \in Seq(Listener)
        /\ Len(SubSeq(o, i + 1, Len(o))) = Len(o) - (i + 1) + 1
        /\ \A j \in 1 .. Len(o) - (i + 1) + 1 :
             SubSeq(o, i + 1, Len(o))[j] = o[(i + 1) + j - 1]
    BY <2>1, SubSeqProperties
  <2> QED
    BY <2>1, <2>2
<1> HIDE DEF before, after
<1>5. rest \in Seq(Listener) /\ Len(rest) = Len(o) - 1
  <2>1. rest \in Seq(Listener) /\ Len(rest) = Len(before) + Len(after)
    BY <1>3, <1>4, ConcatProperties
  <2> QED
    BY <1>1, <1>2, <1>3, <1>4, <2>1
<1>6. ASSUME NEW k \in Listener, k # l, NEW j \in 1 .. Len(o), o[j] = k
      PROVE  \E m \in 1 .. Len(rest) : rest[m] = k
  <2>1. j # i
    BY <1>2, <1>6
  <2>2. CASE j < i
    <3>1. j \in 1 .. i - 1 /\ j \in 1 .. Len(rest)
      BY <1>1, <1>2, <1>5, <2>2
    <3>2. rest[j] = before[j]
      BY <1>3, <1>4, <3>1
    <3> QED
      BY <1>3, <1>6, <3>1, <3>2
  <2>3. CASE j > i
    <3>1. j - i \in 1 .. Len(o) - i /\ j - 1 \in 1 .. Len(rest)
          /\ j - 1 = (i - 1) + (j - i) /\ i + (j - i) = j
      BY <1>1, <1>2, <1>5, <2>3
    <3>2. rest[(i - 1) + (j - i)] = after[j - i]
      BY <1>2, <1>3, <1>4, <3>1
    <3> QED
      BY <1>4, <1>6, <3>1, <3>2
  <2> QED
    BY <1>1, <1>2, <2>1, <2>2, <2>3
<1>7. Without(o, l) = rest
  BY DEF Without, rest, before, after, i
<1> HIDE DEF rest
<1> QED
  BY <1>5, <1>6, <1>7

LEMMA AppendKeeps ==
  ASSUME NEW o \in Seq(Listener), NEW l \in Listener
  PROVE  /\ Append(o, l) \in Seq(Listener)
         /\ \E j \in 1 .. Len(Append(o, l)) : Append(o, l)[j] = l
         /\ \A k \in Listener : (\E j \in 1 .. Len(o) : o[j] = k)
              => \E j \in 1 .. Len(Append(o, l)) : Append(o, l)[j] = k
<1>1. /\ Append(o, l) \in Seq(Listener) /\ Len(Append(o, l)) = Len(o) + 1
      /\ Len(o) \in Nat
      /\ Append(o, l)[Len(o) + 1] = l
      /\ \A j \in 1 .. Len(o) : Append(o, l)[j] = o[j]
  OBVIOUS
<1> QED
  BY <1>1

LEMMA CalledKeepsListeners ==
  ASSUME ListenersInv, NEW device \in Device, NEW l \in Listener,
         IsCalled(device, l),
         \/ Subscribe(device, l)
         \/ Unsubscribe(device, l) /\ l # "database"
  PROVE  ListenersInv'
<1> DEFINE o == order[device]
           rest == Others(device, l)
<1>1. o \in Seq(Listener)
  BY DEF ListenersInv
<1>2. DOMAIN o = 1 .. Len(o)
  BY <1>1
<1>3. \E i \in 1 .. Len(o) : o[i] = l
  BY <1>2 DEF IsCalled
<1>4. /\ rest \in Seq(Listener)
      /\ \A k \in Listener :
           k # l /\ (\E j \in 1 .. Len(o) : o[j] = k)
             => \E j \in 1 .. Len(rest) : rest[j] = k
  <2>1. rest = Without(o, l)
    BY DEF Others, Without
  <2> HIDE DEF o, rest
  <2> QED
    BY <1>1, <1>3, <2>1, OthersStay
<1>5. "database" \in Listener /\ "switch" \in Device
  BY DEF Listener, Device
<1>6. ASSUME NEW new \in Seq(Listener), order' = [order EXCEPT ![device] = new],
             device = "switch" => \E i \in 1 .. Len(new) : new[i] = "database"
      PROVE  ListenersInv'
  <2>1. order' \in [Device -> Seq(Listener)]
    BY <1>6 DEF ListenersInv
  <2>2. order'["switch"] = IF device = "switch" THEN new ELSE order["switch"]
    BY <1>5, <1>6 DEF ListenersInv
  <2> QED
    BY <1>6, <2>1, <2>2 DEF ListenersInv
<1>7. device = "switch" => \E i \in 1 .. Len(o) : o[i] = "database"
  BY DEF ListenersInv
<1> HIDE DEF o, rest
<1>8. CASE Unsubscribe(device, l) /\ l # "database"
  <2>1. order' = [order EXCEPT ![device] = rest]
    BY <1>8 DEF Unsubscribe, rest
  <2> QED
    BY <1>4, <1>5, <1>6, <1>7, <1>8, <2>1
<1>9. CASE Subscribe(device, l)
  <2>1. order' = [order EXCEPT ![device] = Append(rest, l)]
    BY <1>9 DEF Subscribe, rest
  <2>2. /\ Append(rest, l) \in Seq(Listener)
        /\ \E j \in 1 .. Len(Append(rest, l)) : Append(rest, l)[j] = l
        /\ \A k \in Listener : (\E j \in 1 .. Len(rest) : rest[j] = k)
             => \E j \in 1 .. Len(Append(rest, l)) : Append(rest, l)[j] = k
    BY <1>4, AppendKeeps
  <2>3. device = "switch" =>
          \E j \in 1 .. Len(Append(rest, l)) : Append(rest, l)[j] = "database"
    <3>1. CASE l = "database"
      BY <2>2, <3>1
    <3>2. CASE l # "database"
      BY <1>4, <1>5, <1>7, <2>2, <3>2
    <3> QED
      BY <3>1, <3>2
  <2> QED
    BY <1>6, <2>1, <2>2, <2>3
<1> QED
  BY <1>8, <1>9

LEMMA DatabaseIsNotDue ==
  ASSUME ListenersInv, Elapse
  PROVE  untilDatabase # 0 /\ ListenersInv'
<1>1. PICK i \in 1 .. Len(order["switch"]) : order["switch"][i] = "database"
  BY DEF ListenersInv
<1>2. order["switch"] \in Seq(Listener) /\ "switch" \in Device
  BY DEF ListenersInv, Device
<1>3. i \in DOMAIN order["switch"]
  BY <1>1, <1>2
<1>4. Until("switch", "database") # 0
  BY <1>1, <1>2, <1>3 DEF Elapse
<1>5. Until("switch", "database") = untilDatabase
  BY DEF Until
<1>6. order' = order
  BY DEF Elapse
<1> QED
  BY <1>4, <1>5, <1>6 DEF ListenersInv

-----------------------------------------------------------------------------
(* The invariant of the network *)

\* The controller runs a schedule, but for the instant of the start.
GatesInv ==
  /\ ControllerInv
  /\ IsEmpty(currentSchedule) => untilTick = 0 /\ nextSchedule # NoSchedule
  /\ nextSchedule # NoSchedule => ~IsEmpty(nextSchedule)

DatabaseInv ==
  /\ cycle \in Nat \ {0} /\ newCycle \in Nat \ {0}
  /\ untilDatabase \in 0 .. cycle

\* What the ScheduleSwaps have given the parts.
GatesGiven   == ConfigurationAfter(scheduleSwap["switch"].index).gates
HostGiven    == ConfigurationAfter(scheduleSwap["host"].index).host
RoutingGiven == RoutingAfter(scheduleSwap["switch"].index)

\* What a part was given last, it runs, or it has waited for it no longer than
\* its cycle has lasted.
GatesUpToDate ==
  IF nextSchedule = NoSchedule
    THEN currentSchedule = GatesGiven
    ELSE nextSchedule = GatesGiven /\ sinceLoad["switch"] <= Position

HostUpToDate ==
  IF nextHostSchedule = NoHostSchedule
    THEN hostSchedule = HostGiven
    ELSE nextHostSchedule = HostGiven /\ sinceLoad["host"] <= HostPosition

DatabaseUpToDate ==
  IF changeDatabase
    THEN adminFdb = RoutingGiven /\ sinceLoad["switch"] <= cycle - untilDatabase
    ELSE operFdb = RoutingGiven

NetworkInv ==
  /\ PlanInv /\ GatesInv /\ GeneratorInv /\ DatabaseInv /\ ListenersInv
  /\ GatesUpToDate /\ HostUpToDate /\ DatabaseUpToDate

LEMMA SameGiven ==
  ASSUME UNCHANGED <<plan, scheduleSwap>>
  PROVE  UNCHANGED <<GatesGiven, HostGiven, RoutingGiven>>
BY DEF GatesGiven, HostGiven, RoutingGiven, ConfigurationAfter, RoutingAfter

LEMMA SamePlan ==
  ASSUME UNCHANGED plan
  PROVE  /\ \A n : ConfigurationAfter(n)' = ConfigurationAfter(n)
         /\ \A n : RoutingAfter(n)' = RoutingAfter(n)
BY DEF ConfigurationAfter, RoutingAfter

LEMMA GatesIdle ==
  ASSUME NetworkInv, UNCHANGED <<controllerVars, GatesGiven, sinceLoad["switch"]>>
  PROVE  GatesInv' /\ GatesUpToDate' /\ Position' = Position
<1>1. ControllerInv' /\ Position' = Position
  BY ControllerIdle DEF NetworkInv, GatesInv
<1>2. UNCHANGED <<currentSchedule, nextSchedule, untilTick>>
  BY DEF controllerVars
<1>3. GatesInv'
  BY <1>1, <1>2 DEF NetworkInv, GatesInv
<1> QED
  BY <1>1, <1>2, <1>3 DEF NetworkInv, GatesUpToDate

LEMMA HostIdle ==
  ASSUME NetworkInv, UNCHANGED <<generatorVars, HostGiven, sinceLoad["host"]>>
  PROVE  GeneratorInv' /\ HostUpToDate' /\ HostPosition' = HostPosition
<1>1. GeneratorInv' /\ HostPosition' = HostPosition
  BY GeneratorIdle DEF NetworkInv
<1>2. UNCHANGED <<hostSchedule, nextHostSchedule>>
  BY DEF generatorVars
<1> QED
  BY <1>1, <1>2 DEF NetworkInv, HostUpToDate

LEMMA DatabaseIdle ==
  ASSUME NetworkInv, UNCHANGED <<databaseVars, RoutingGiven, sinceLoad["switch"]>>
  PROVE  DatabaseInv' /\ DatabaseUpToDate'
BY DEF NetworkInv, DatabaseInv, DatabaseUpToDate, databaseVars

LEMMA PlanIdle ==
  ASSUME NetworkInv, UNCHANGED <<plan, scheduleSwap, sinceLoad>>
  PROVE  PlanInv'
BY DEF NetworkInv, PlanInv

LEMMA SwapIndices ==
  ASSUME PlanInv
  PROVE  /\ "switch" \in Device /\ "host" \in Device /\ "switch" # "host"
         /\ \A d \in Device :
              /\ scheduleSwap[d].index \in 0 .. Len(plan.swaps)
              /\ sinceLoad[d] \in Nat
BY DEF PlanInv, Device

LEMMA NetworkInit ==
  ASSUME Init
  PROVE  NetworkInv /\ Position = 0 /\ HostPosition = 0
<1>1. plan \in Plans /\ Configuration(plan.initial) /\ Len(plan.swaps) \in Nat
  BY PlanFacts DEF Init
<1>2. PlanInv /\ scheduleSwap["switch"].index = 0 /\ scheduleSwap["host"].index = 0
      /\ sinceLoad["switch"] = 0
  BY <1>1 DEF Init, PlanInv, Device
<1>3. ControllerInv
  BY ControllerInitInv DEF Init
<1>4. nextSchedule = plan.initial.gates /\ currentSchedule = <<>> /\ untilTick = 0
  BY DEF Init, ControllerInit
<1>5. GatesInv /\ Position = 0
  BY <1>1, <1>3, <1>4 DEF GatesInv, Configuration, IsEmpty, Position
<1>6. GeneratorInv /\ HostPosition = 0
  BY <1>1, GeneratorInitInv DEF Init, Configuration
<1>7. DatabaseInv
  BY <1>1 DEF Init, DatabaseInv, Configuration
<1>8. ListenersInv
  <2>1. /\ <<"gates", "database", "swap">> \in Seq(Listener)
        /\ <<"generator", "swap">> \in Seq(Listener)
        /\ Len(<<"gates", "database", "swap">>) = 3
        /\ <<"gates", "database", "swap">>[2] = "database"
    BY DEF Listener
  <2>2. /\ order \in [Device -> Seq(Listener)]
        /\ order["switch"] = <<"gates", "database", "swap">>
    BY <2>1 DEF Init, Device
  <2> QED
    BY <2>1, <2>2 DEF ListenersInv
<1>9. ConfigurationAfter(0) = plan.initial /\ RoutingAfter(0) = plan.routing
  BY <1>1, ConfigurationBefore
<1>10. GatesUpToDate
  BY <1>1, <1>2, <1>4, <1>5, <1>9 DEF GatesUpToDate, GatesGiven, Configuration
<1>11. HostUpToDate
  BY <1>2, <1>9 DEF HostUpToDate, HostGiven, Init, GeneratorInit
<1>12. DatabaseUpToDate
  <2>1. changeDatabase /\ adminFdb = plan.routing /\ untilDatabase = 0
        /\ cycle \in Nat
    BY <1>7 DEF Init, DatabaseInv
  <2> QED
    BY <1>2, <1>9, <2>1 DEF DatabaseUpToDate, RoutingGiven
<1> QED
  BY <1>2, <1>5, <1>6, <1>7, <1>8, <1>10, <1>11, <1>12 DEF NetworkInv

-----------------------------------------------------------------------------
(* The steps of the network *)

LEMMA DatabaseTickNetwork ==
  ASSUME NetworkInv, DatabaseTick
  PROVE  NetworkInv' /\ Position' = Position /\ HostPosition' = HostPosition
<1>1. UNCHANGED <<plan, controllerVars, generatorVars, newCycle, scheduleSwap, sinceLoad>>
  BY DEF DatabaseTick
<1>2. UNCHANGED <<GatesGiven, HostGiven, RoutingGiven>>
  BY <1>1, SameGiven
<1>3. PlanInv' /\ GatesInv' /\ GatesUpToDate' /\ GeneratorInv' /\ HostUpToDate'
      /\ Position' = Position /\ HostPosition' = HostPosition
  BY <1>1, <1>2, PlanIdle, GatesIdle, HostIdle
<1>4. ListenersInv'
  BY CalledKeepsListeners DEF NetworkInv, DatabaseTick, Device, Listener
<1>5. DatabaseInv'
  BY DEF NetworkInv, DatabaseInv, DatabaseTick
<1>6. DatabaseUpToDate'
  BY <1>2 DEF NetworkInv, DatabaseUpToDate, DatabaseTick
<1> QED
  BY <1>3, <1>4, <1>5, <1>6 DEF NetworkInv

LEMMA GatesTickNetwork ==
  ASSUME NetworkInv, GatesTick
  PROVE  /\ NetworkInv' /\ HostPosition' = HostPosition
         /\ ~IsEmpty(currentSchedule')
         /\ IF scheduleIndex = 0
              THEN Position = CycleLength(currentSchedule) /\ Position' = 0
              ELSE Position' = Position /\ UNCHANGED <<currentSchedule, nextSchedule>>
<1>1. UNCHANGED <<plan, generatorVars, databaseVars, scheduleSwap, sinceLoad>>
  BY DEF GatesTick
<1>2. UNCHANGED <<GatesGiven, HostGiven, RoutingGiven>>
  BY <1>1, SameGiven
<1>3. PlanInv' /\ GeneratorInv' /\ HostUpToDate' /\ HostPosition' = HostPosition
      /\ DatabaseInv' /\ DatabaseUpToDate'
  BY <1>1, <1>2, PlanIdle, DatabaseIdle, HostIdle
<1>4. ListenersInv'
  BY CalledKeepsListeners DEF NetworkInv, GatesTick, Device, Listener
<1>5. ControllerInv /\ TickEntry
  BY DEF NetworkInv, GatesInv, GatesTick
<1>6. /\ ControllerInv' /\ ~IsEmpty(currentSchedule')
      /\ currentSchedule' = TickSchedule /\ nextSchedule' = TickNextSchedule
  BY <1>5, TickEntryInv
<1>7. IF scheduleIndex = 0
        THEN Position = CycleLength(currentSchedule) /\ Position' = 0
        ELSE Position' = Position /\ UNCHANGED <<currentSchedule, nextSchedule>>
  BY <1>5, TickEntryPosition
<1>8. GatesInv'
  BY <1>6 DEF NetworkInv, GatesInv, TickNextSchedule
<1>9. GatesUpToDate'
  BY <1>1, <1>2, <1>6, <1>7
     DEF NetworkInv, GatesUpToDate, TickSchedule, TickNextSchedule, SwapsSchedule
<1> QED
  BY <1>3, <1>4, <1>6, <1>7, <1>8, <1>9 DEF NetworkInv

LEMMA TrafficTickNetwork ==
  ASSUME NetworkInv, TrafficTick
  PROVE  /\ NetworkInv' /\ Position' = Position
         /\ \/ /\ HostPosition' = HostPosition
               /\ UNCHANGED <<hostSchedule, nextHostSchedule>>
            \/ /\ HostPosition = hostSchedule.cycle /\ HostPosition' = 0
               /\ hostSchedule' \in {hostSchedule, nextHostSchedule} \ {NoHostSchedule}
               /\ nextHostSchedule' = NoHostSchedule
<1>1. UNCHANGED <<plan, controllerVars, databaseVars, scheduleSwap, sinceLoad>>
  BY DEF TrafficTick
<1>2. UNCHANGED <<GatesGiven, HostGiven, RoutingGiven>>
  BY <1>1, SameGiven
<1>3. PlanInv' /\ GatesInv' /\ GatesUpToDate' /\ Position' = Position
      /\ DatabaseInv' /\ DatabaseUpToDate'
  BY <1>1, <1>2, PlanIdle, DatabaseIdle, GatesIdle
<1>4. ListenersInv'
  BY CalledKeepsListeners DEF NetworkInv, TrafficTick, Device, Listener
<1>5. CASE SendPacket
  <2>1. GeneratorInv' /\ HostPosition' = HostPosition
        /\ UNCHANGED <<hostSchedule, nextHostSchedule>>
    BY <1>5, SendPacketInv DEF NetworkInv, SendPacket
  <2>2. HostUpToDate'
    BY <1>1, <1>2, <2>1 DEF NetworkInv, HostUpToDate
  <2> QED
    BY <1>3, <1>4, <2>1, <2>2 DEF NetworkInv
<1>6. CASE StartCycle
  <2>1. GeneratorInv' /\ HostPosition = hostSchedule.cycle /\ HostPosition' = 0
    BY <1>6, StartCycleInv DEF NetworkInv
  <2>2. /\ hostSchedule' = IF nextHostSchedule = NoHostSchedule
                             THEN hostSchedule ELSE nextHostSchedule
        /\ nextHostSchedule' = NoHostSchedule
    BY <1>6 DEF StartCycle
  <2>3. hostSchedule # NoHostSchedule
    BY NoHostScheduleIsNone DEF NetworkInv, GeneratorInv
  <2>4. HostUpToDate'
    BY <1>2, <2>2 DEF NetworkInv, HostUpToDate
  <2> QED
    BY <1>3, <1>4, <2>1, <2>2, <2>3, <2>4 DEF NetworkInv
<1> QED
  BY <1>5, <1>6 DEF TrafficTick, GeneratorTick

\* What a swap's entry gives the parts of its device.
LEMMA SwapGives ==
  ASSUME NetworkInv, NEW d \in Device, SwapEntry(d)
  PROVE  LET e == plan.swaps[scheduleSwap[d].index + 1]
         IN  /\ plan' = plan
             /\ scheduleSwap' \in [Device -> [index : 0 .. Len(plan.swaps), until : Int]]
             /\ Load(d, e)
             /\ Loads(e) => Configuration(e.configuration)
             /\ IF d = "switch"
                  THEN /\ GatesGiven' = IF Loads(e) THEN e.configuration.gates
                                                    ELSE GatesGiven
                       /\ RoutingGiven' = IF NamesRouting(e) THEN e.routing
                                                             ELSE RoutingGiven
                       /\ HostGiven' = HostGiven
                  ELSE /\ HostGiven' = IF Loads(e) THEN e.configuration.host
                                                   ELSE HostGiven
                       /\ UNCHANGED <<GatesGiven, RoutingGiven>>
<1> DEFINE n == scheduleSwap[d].index + 1
           e == plan.swaps[n]
<1>1. plan \in Plans /\ scheduleSwap \in [Device -> [index : 0 .. Len(plan.swaps), until : Int]]
  BY DEF NetworkInv, PlanInv
<1>2. scheduleSwap[d].index \in 0 .. Len(plan.swaps) /\ Len(plan.swaps) \in Nat
  BY <1>1, PlanFacts
<1>3. /\ n <= Len(plan.swaps) /\ Load(d, e) /\ plan' = plan
      /\ scheduleSwap' = [scheduleSwap EXCEPT ![d] =
           [index |-> n, until |-> IF IsLast(n) THEN Never ELSE e.length]]
  BY DEF SwapEntry
<1>4. n \in Nat \ {0} /\ n \in 1 .. Len(plan.swaps) /\ n - 1 = scheduleSwap[d].index
  BY <1>2, <1>3
<1>5. e.length \in Nat /\ (Loads(e) => Configuration(e.configuration))
  BY <1>1, <1>4, PlanFacts
<1>6. /\ ConfigurationAfter(n) = IF Loads(e) THEN e.configuration
                                             ELSE ConfigurationAfter(scheduleSwap[d].index)
      /\ RoutingAfter(n) = IF NamesRouting(e) THEN e.routing
                                              ELSE RoutingAfter(scheduleSwap[d].index)
  BY <1>4, ConfigurationAfterSwap
<1> HIDE DEF n, e
<1>7. scheduleSwap' \in [Device -> [index : 0 .. Len(plan.swaps), until : Int]]
  <2>1. (IF IsLast(n) THEN Never ELSE e.length) \in Int
    BY <1>5 DEF Never
  <2>2. [index |-> n, until |-> IF IsLast(n) THEN Never ELSE e.length]
          \in [index : 0 .. Len(plan.swaps), until : Int]
    BY <1>2, <1>4, <2>1
  <2> QED
    BY <1>1, <1>3, <2>2
<1>8. scheduleSwap'[d].index = n /\ \A o \in Device \ {d} : scheduleSwap'[o] = scheduleSwap[o]
  BY <1>1, <1>3
<1>9. "switch" \in Device /\ "host" \in Device /\ d \in {"switch", "host"}
  BY DEF Device
<1>10. CASE d = "switch"
  <2>1. scheduleSwap'["switch"].index = n /\ scheduleSwap'["host"] = scheduleSwap["host"]
    BY <1>8, <1>9, <1>10
  <2>2. /\ GatesGiven' = ConfigurationAfter(n).gates
        /\ RoutingGiven' = RoutingAfter(n)
        /\ HostGiven' = HostGiven
    BY <1>3, <2>1, SamePlan DEF GatesGiven, HostGiven, RoutingGiven
  <2>3. GatesGiven' = IF Loads(e) THEN e.configuration.gates ELSE GatesGiven
    BY <1>6, <1>10, <2>2 DEF GatesGiven
  <2>4. RoutingGiven' = IF NamesRouting(e) THEN e.routing ELSE RoutingGiven
    BY <1>6, <1>10, <2>2 DEF RoutingGiven
  <2> QED
    BY <1>3, <1>5, <1>7, <1>10, <2>2, <2>3, <2>4 DEF n, e
<1>11. CASE d = "host"
  <2>1. scheduleSwap'["host"].index = n /\ scheduleSwap'["switch"] = scheduleSwap["switch"]
    BY <1>8, <1>9, <1>11
  <2>2. HostGiven' = ConfigurationAfter(n).host
        /\ UNCHANGED <<GatesGiven, RoutingGiven>>
    BY <1>3, <2>1, SamePlan DEF GatesGiven, HostGiven, RoutingGiven
  <2>3. HostGiven' = IF Loads(e) THEN e.configuration.host ELSE HostGiven
    BY <1>6, <1>11, <2>2 DEF HostGiven
  <2> QED
    BY <1>3, <1>5, <1>7, <1>11, <2>2, <2>3 DEF n, e
<1> QED
  BY <1>9, <1>10, <1>11

LEMMA SwapListeners ==
  ASSUME NetworkInv, NEW d \in Device, IsCalled(d, "swap"),
         Subscribe(d, "swap") \/ Unsubscribe(d, "swap")
  PROVE  ListenersInv'
BY CalledKeepsListeners DEF NetworkInv, Listener

\* A swap disturbs neither positions nor what is in force.
LEMMA SwapEntryNetwork ==
  ASSUME NetworkInv, NEW d \in Device, SwapEntry(d)
  PROVE  /\ NetworkInv' /\ Position' = Position /\ HostPosition' = HostPosition
         /\ UNCHANGED <<plan, currentSchedule, hostSchedule, cycle, untilDatabase>>
         /\ nextSchedule' \in {nextSchedule, GatesGiven'}
         /\ nextHostSchedule' \in {nextHostSchedule, HostGiven'}
         /\ newCycle' = newCycle
              \/ \E i \in 1 .. Len(plan.swaps) :
                   /\ Loads(plan.swaps[i])
                   /\ newCycle' = plan.swaps[i].configuration.cycle
<1> DEFINE n == scheduleSwap[d].index + 1
           e == plan.swaps[n]
<1>1. /\ plan' = plan
      /\ scheduleSwap' \in [Device -> [index : 0 .. Len(plan.swaps), until : Int]]
      /\ Load(d, e)
      /\ Loads(e) => Configuration(e.configuration)
      /\ IF d = "switch"
           THEN /\ GatesGiven' = IF Loads(e) THEN e.configuration.gates ELSE GatesGiven
                /\ RoutingGiven' = IF NamesRouting(e) THEN e.routing ELSE RoutingGiven
                /\ HostGiven' = HostGiven
           ELSE /\ HostGiven' = IF Loads(e) THEN e.configuration.host ELSE HostGiven
                /\ UNCHANGED <<GatesGiven, RoutingGiven>>
  BY SwapGives
<1>2. n \in 1 .. Len(plan.swaps)
  BY SwapIndices DEF SwapEntry, NetworkInv, PlanInv
<1>3. ListenersInv'
  BY SwapListeners DEF SwapEntry
<1> HIDE DEF n, e
<1>4. sinceLoad \in [Device -> Nat] /\ d \in {"switch", "host"} /\ d \in Device
      /\ "switch" \in Device /\ "host" \in Device
  BY DEF NetworkInv, PlanInv, Device
<1>5. CASE ~Loads(e)
  <2>1. UNCHANGED <<controllerVars, generatorVars, databaseVars, sinceLoad>>
    BY <1>1, <1>5 DEF Load
  <2>2. UNCHANGED <<GatesGiven, HostGiven, RoutingGiven>>
    BY <1>1, <1>5 DEF NamesRouting
  <2>3. PlanInv'
    BY <1>1, <1>4, <2>1 DEF PlanInv, NetworkInv
  <2>4. GatesInv' /\ GatesUpToDate' /\ GeneratorInv' /\ HostUpToDate'
        /\ Position' = Position /\ HostPosition' = HostPosition
        /\ DatabaseInv' /\ DatabaseUpToDate'
    BY <2>1, <2>2, GatesIdle, HostIdle, DatabaseIdle
  <2>5. UNCHANGED <<currentSchedule, hostSchedule, cycle, untilDatabase,
                    nextSchedule, nextHostSchedule, newCycle>>
    BY <2>1 DEF controllerVars, generatorVars, databaseVars
  <2> QED
    BY <1>1, <1>3, <2>3, <2>4, <2>5 DEF NetworkInv
<1>6. CASE Loads(e)
  <2>1. sinceLoad' = [sinceLoad EXCEPT ![d] = 0] /\ sinceLoad' \in [Device -> Nat]
    BY <1>1, <1>4, <1>6 DEF Load
  <2>2. PlanInv'
    BY <1>1, <2>1 DEF PlanInv, NetworkInv
  <2>3. CASE d = "switch"
    <3>1. /\ LoadSchedule(e.configuration.gates) /\ LoadDatabase(e)
          /\ UNCHANGED generatorVars
      BY <1>1, <1>6, <2>3 DEF Load
    <3>2. sinceLoad'["switch"] = 0 /\ sinceLoad'["host"] = sinceLoad["host"]
      BY <1>4, <2>1, <2>3
    <3>3. GatesGiven' = e.configuration.gates /\ HostGiven' = HostGiven
          /\ RoutingGiven' = IF NamesRouting(e) THEN e.routing ELSE RoutingGiven
      BY <1>1, <1>6, <2>3
    <3>4. /\ e.configuration.gates \in Schedule /\ ~IsEmpty(e.configuration.gates)
          /\ e.configuration.gates # NoSchedule /\ e.configuration.cycle \in Nat \ {0}
      BY <1>1, <1>6 DEF Configuration
    <3>5. GeneratorInv' /\ HostUpToDate' /\ HostPosition' = HostPosition
      BY <3>1, <3>2, <3>3, HostIdle
    <3>6. ControllerInv' /\ Position' = Position
      BY <3>1, <3>4, LoadScheduleInv, LoadSchedulePosition DEF NetworkInv, GatesInv
    <3>7. nextSchedule' = GatesGiven' /\ UNCHANGED <<currentSchedule, untilTick>>
      BY <3>1, <3>3 DEF LoadSchedule
    <3>8. Position \in Nat
      BY PositionInCycle DEF NetworkInv, GatesInv
    <3>9. GatesInv'
      BY <3>3, <3>4, <3>6, <3>7 DEF NetworkInv, GatesInv
    <3>10. GatesUpToDate'
      BY <3>2, <3>3, <3>4, <3>6, <3>7, <3>8 DEF GatesUpToDate
    <3>11. /\ newCycle' \in {newCycle, e.configuration.cycle}
           /\ UNCHANGED <<operFdb, cycle, untilDatabase>>
           /\ IF NamesRouting(e)
                THEN adminFdb' = e.routing /\ changeDatabase' = TRUE
                ELSE UNCHANGED <<adminFdb, changeDatabase>>
      BY <3>1 DEF LoadDatabase
    <3>12. DatabaseInv'
      BY <3>4, <3>11 DEF NetworkInv, DatabaseInv
    <3>13. 0 <= cycle - untilDatabase
      BY DEF NetworkInv, DatabaseInv
    <3>14. DatabaseUpToDate'
      BY <3>2, <3>3, <3>11, <3>13 DEF NetworkInv, DatabaseUpToDate
    <3>15. UNCHANGED <<hostSchedule, nextHostSchedule>>
      BY <3>1 DEF generatorVars
    <3>16. newCycle' = newCycle
             \/ \E i \in 1 .. Len(plan.swaps) :
                  /\ Loads(plan.swaps[i])
                  /\ newCycle' = plan.swaps[i].configuration.cycle
      BY <1>2, <1>6, <3>11 DEF e
    <3> QED
      BY <1>1, <1>3, <2>2, <3>5, <3>6, <3>7, <3>9, <3>10, <3>11, <3>12, <3>14,
         <3>15, <3>16 DEF NetworkInv
  <2>4. CASE d = "host"
    <3>1. /\ LoadHostSchedule(e.configuration.host)
          /\ UNCHANGED <<controllerVars, databaseVars>>
      BY <1>1, <1>6, <2>4 DEF Load
    <3>2. sinceLoad'["host"] = 0 /\ sinceLoad'["switch"] = sinceLoad["switch"]
      BY <1>4, <2>1, <2>4
    <3>3. HostGiven' = e.configuration.host /\ UNCHANGED <<GatesGiven, RoutingGiven>>
      BY <1>1, <1>6, <2>4
    <3>4. /\ e.configuration.host \in HostSchedules /\ IsOrdered(e.configuration.host)
          /\ e.configuration.host # NoHostSchedule
      BY <1>1, <1>6 DEF Configuration
    <3>5. GatesInv' /\ GatesUpToDate' /\ Position' = Position
          /\ DatabaseInv' /\ DatabaseUpToDate'
      BY <3>1, <3>2, <3>3, GatesIdle, DatabaseIdle
    <3>6. GeneratorInv' /\ HostPosition' = HostPosition
      BY <3>1, <3>4, LoadHostScheduleInv DEF NetworkInv
    <3>7. nextHostSchedule' = HostGiven' /\ UNCHANGED hostSchedule
      BY <3>1, <3>3 DEF LoadHostSchedule
    <3>8. HostUpToDate'
      BY <3>2, <3>3, <3>4, <3>6, <3>7 DEF NetworkInv, GeneratorInv, HostUpToDate
    <3>9. UNCHANGED <<currentSchedule, nextSchedule, cycle, newCycle, untilDatabase>>
      BY <3>1 DEF controllerVars, databaseVars
    <3> QED
      BY <1>1, <1>3, <2>2, <3>5, <3>6, <3>7, <3>8, <3>9 DEF NetworkInv
  <2> QED
    BY <1>4, <2>3, <2>4
<1> QED
  BY <1>5, <1>6

LEMMA SwapNothingNetwork ==
  ASSUME NetworkInv, NEW d \in Device, SwapNothing(d)
  PROVE  NetworkInv' /\ Position' = Position /\ HostPosition' = HostPosition
<1>1. /\ UNCHANGED <<plan, controllerVars, generatorVars, databaseVars, sinceLoad>>
      /\ scheduleSwap' = [scheduleSwap EXCEPT ![d].until = Never]
  BY DEF SwapNothing
<1>2. ListenersInv'
  BY SwapListeners DEF SwapNothing
<1>3. /\ scheduleSwap \in [Device -> [index : 0 .. Len(plan.swaps), until : Int]]
      /\ "switch" \in Device /\ "host" \in Device
  BY DEF NetworkInv, PlanInv, Device
<1>4. PlanInv' /\ \A o \in Device : scheduleSwap'[o].index = scheduleSwap[o].index
  BY <1>1, <1>3 DEF NetworkInv, PlanInv, Never
<1>5. UNCHANGED <<GatesGiven, HostGiven, RoutingGiven>>
  BY <1>1, <1>3, <1>4
     DEF GatesGiven, HostGiven, RoutingGiven, ConfigurationAfter, RoutingAfter
<1>6. GatesInv' /\ GatesUpToDate' /\ GeneratorInv' /\ HostUpToDate'
      /\ Position' = Position /\ HostPosition' = HostPosition
      /\ DatabaseInv' /\ DatabaseUpToDate'
  BY <1>1, <1>5, GatesIdle, HostIdle, DatabaseIdle
<1> QED
  BY <1>2, <1>4, <1>6 DEF NetworkInv

LEMMA ElapseNetwork ==
  ASSUME NetworkInv, Elapse
  PROVE  /\ NetworkInv' /\ ~IsEmpty(currentSchedule)
         /\ Position' = Position + 1 /\ HostPosition' = HostPosition + 1
         /\ untilDatabase' = untilDatabase - 1
         /\ UNCHANGED <<plan, currentSchedule, nextSchedule, hostSchedule,
                        nextHostSchedule, cycle, newCycle>>
<1>1. /\ ControllerElapse /\ GeneratorElapse /\ untilDatabase' = untilDatabase - 1
      /\ scheduleSwap' = [d \in Device |->
           IF scheduleSwap[d].until = Never THEN scheduleSwap[d]
           ELSE [scheduleSwap[d] EXCEPT !.until = @ - 1]]
      /\ sinceLoad' = [d \in Device |->
           IF sinceLoad[d] > LongestCycle THEN sinceLoad[d] ELSE sinceLoad[d] + 1]
      /\ UNCHANGED <<plan, operFdb, adminFdb, changeDatabase, cycle, newCycle, order>>
  BY DEF Elapse
<1>2. untilDatabase # 0 /\ ListenersInv'
  BY DatabaseIsNotDue DEF NetworkInv
<1>3. /\ scheduleSwap \in [Device -> [index : 0 .. Len(plan.swaps), until : Int]]
      /\ sinceLoad \in [Device -> Nat]
      /\ "switch" \in Device /\ "host" \in Device
  BY DEF NetworkInv, PlanInv, Device
<1>4. \A d \in Device :
        /\ scheduleSwap'[d] \in [index : 0 .. Len(plan.swaps), until : Int]
        /\ scheduleSwap'[d].index = scheduleSwap[d].index
  <2> TAKE d \in Device
  <2>1. /\ scheduleSwap[d] \in [index : 0 .. Len(plan.swaps), until : Int]
        /\ scheduleSwap[d].until \in Int
    BY <1>3
  <2>2. scheduleSwap'[d] \in
          {scheduleSwap[d], [scheduleSwap[d] EXCEPT !.until = scheduleSwap[d].until - 1]}
    BY <1>1
  <2> QED
    BY <2>1, <2>2
<1>5. \A d \in Device : sinceLoad'[d] \in Nat /\ sinceLoad'[d] <= sinceLoad[d] + 1
  BY <1>1, <1>3
<1>6. PlanInv'
  <2>1. scheduleSwap' \in [Device -> [index : 0 .. Len(plan.swaps), until : Int]]
    BY <1>1, <1>4
  <2>2. sinceLoad' \in [Device -> Nat]
    BY <1>1, <1>5
  <2> QED
    BY <1>1, <2>1, <2>2 DEF NetworkInv, PlanInv
<1>7. UNCHANGED <<GatesGiven, HostGiven, RoutingGiven>>
  BY <1>1, <1>3, <1>4
     DEF GatesGiven, HostGiven, RoutingGiven, ConfigurationAfter, RoutingAfter
<1>8. untilTick # 0
  BY <1>1 DEF ControllerElapse, ControllerQuiet
<1>9. ~IsEmpty(currentSchedule)
  BY <1>8 DEF NetworkInv, GatesInv
<1>10. ControllerInv' /\ Position' = Position + 1
  BY <1>1, <1>9, ControllerElapseInv, ControllerElapsePosition DEF NetworkInv, GatesInv
<1>11. UNCHANGED <<currentSchedule, nextSchedule>>
  BY <1>1 DEF ControllerElapse
<1>12. GatesInv'
  BY <1>9, <1>10, <1>11 DEF NetworkInv, GatesInv
<1>13. Position \in Nat
  BY PositionInCycle DEF NetworkInv, GatesInv
<1>14. GatesUpToDate'
  BY <1>3, <1>5, <1>7, <1>10, <1>11, <1>13 DEF NetworkInv, GatesUpToDate
<1>15. GeneratorInv' /\ HostPosition' = HostPosition + 1
  BY <1>1, GeneratorElapseInv DEF NetworkInv
<1>16. UNCHANGED <<hostSchedule, nextHostSchedule>> /\ HostPosition \in Nat
  BY <1>1 DEF GeneratorElapse, NetworkInv, GeneratorInv
<1>17. HostUpToDate'
  BY <1>3, <1>5, <1>7, <1>15, <1>16 DEF NetworkInv, HostUpToDate
<1>18. DatabaseInv'
  BY <1>1, <1>2 DEF NetworkInv, DatabaseInv
<1>19. DatabaseUpToDate'
  BY <1>1, <1>3, <1>5, <1>7 DEF NetworkInv, DatabaseInv, DatabaseUpToDate
<1> QED
  BY <1>1, <1>2, <1>6, <1>9, <1>10, <1>11, <1>12, <1>14, <1>15, <1>16, <1>17,
     <1>18, <1>19 DEF NetworkInv

LEMMA NetworkIdle ==
  ASSUME NetworkInv, UNCHANGED vars
  PROVE  NetworkInv' /\ Position' = Position /\ HostPosition' = HostPosition
<1>1. UNCHANGED <<plan, controllerVars, generatorVars, databaseVars, scheduleSwap,
                  order, sinceLoad>>
  BY DEF vars
<1>2. UNCHANGED <<GatesGiven, HostGiven, RoutingGiven>>
  BY <1>1, SameGiven
<1>3. ListenersInv'
  BY <1>1 DEF NetworkInv, ListenersInv
<1>4. PlanInv' /\ GatesInv' /\ GatesUpToDate' /\ GeneratorInv' /\ HostUpToDate'
      /\ Position' = Position /\ HostPosition' = HostPosition
      /\ DatabaseInv' /\ DatabaseUpToDate'
  BY <1>1, <1>2, PlanIdle, GatesIdle, HostIdle, DatabaseIdle
<1> QED
  BY <1>3, <1>4 DEF NetworkInv

LEMMA NetworkStep == NetworkInv /\ [Next]_vars => NetworkInv'
<1> SUFFICES ASSUME NetworkInv, [Next]_vars PROVE NetworkInv'
  OBVIOUS
<1>1. CASE DatabaseTick
  BY <1>1, DatabaseTickNetwork
<1>2. CASE GatesTick
  BY <1>2, GatesTickNetwork
<1>3. CASE TrafficTick
  BY <1>3, TrafficTickNetwork
<1>4. ASSUME NEW d \in Device, SwapEntry(d)
      PROVE  NetworkInv'
  BY <1>4, SwapEntryNetwork
<1>5. ASSUME NEW d \in Device, SwapNothing(d)
      PROVE  NetworkInv'
  BY <1>5, SwapNothingNetwork
<1>6. CASE Elapse
  BY <1>6, ElapseNetwork
<1>7. CASE UNCHANGED vars
  BY <1>7, NetworkIdle
<1> QED
  BY <1>1, <1>2, <1>3, <1>4, <1>5, <1>6, <1>7 DEF Next

\* Of a network whose devices swap schedules by a plan: its parts keep to the
\* schedules they run, and what a ScheduleSwap (ScheduleSwap.cc:48) has handed
\* over is in force or waits in loadSchedule's nextSchedule.
THEOREM NetworkIsConsistent == Spec => []NetworkInv
<1>1. Init => NetworkInv
  BY NetworkInit
<1> QED
  BY <1>1, NetworkStep, PTL DEF Spec

\* No part of a device is behind its ScheduleSwap by more than one of its own
\* cycles, whatever the order in which a clock calls the listeners of a tick
\* (ClockBase.cc:190): the tick that ends the cycle takes what waits.
THEOREM PartsChangeWithinACycle == Spec => []ChangesWithinACycle
<1>1. NetworkInv => ChangesWithinACycle
  <2> SUFFICES ASSUME NetworkInv PROVE ChangesWithinACycle
    OBVIOUS
  <2>1. /\ sinceLoad["switch"] \in Nat /\ sinceLoad["host"] \in Nat
    BY SwapIndices DEF NetworkInv
  <2>2. currentSchedule # GatesGiven =>
          sinceLoad["switch"] <= CycleLength(currentSchedule)
    <3>1. Position \in Nat /\ CycleLength(currentSchedule) \in Nat
          /\ Position <= CycleLength(currentSchedule)
      BY PositionInCycle DEF NetworkInv, GatesInv
    <3> QED
      BY <2>1, <3>1 DEF NetworkInv, GatesUpToDate
  <2>3. hostSchedule # HostGiven => sinceLoad["host"] <= hostSchedule.cycle
    <3>1. HostPosition \in 0 .. hostSchedule.cycle /\ hostSchedule.cycle \in Nat
      BY HostPositionIsDue DEF NetworkInv
    <3> QED
      BY <2>1, <3>1 DEF NetworkInv, HostUpToDate
  <2>4. operFdb # RoutingGiven => sinceLoad["switch"] <= cycle
    BY <2>1 DEF NetworkInv, DatabaseInv, DatabaseUpToDate
  <2> QED
    BY <2>2, <2>3, <2>4 DEF ChangesWithinACycle, GatesGiven, HostGiven, RoutingGiven
<1> QED
  BY <1>1, NetworkIsConsistent, PTL

\* The generator keeps to its timetable in spite of the swaps: it sends the
\* frames of its schedule at their times, once in every cycle, and takes another
\* schedule only between two cycles (VlanEtherTrafGenSched.cc:134), whatever the
\* plan, the order of the ticks and the times of the entries.
THEOREM GeneratorRunsItsTimetable == Spec => RunsItsTimetable
<1>1. Init => Table!Init
  <2> SUFFICES ASSUME Init PROVE Table!Init
    OBVIOUS
  <2>1. plan.initial.host \in HostSchedules /\ HostPosition = 0
    BY PlanFacts, NetworkInit DEF Init, Configuration
  <2>2. lastFrame \in HostFrame
    BY HostFrameAssumption DEF Init, GeneratorInit
  <2> QED
    BY <2>1, <2>2, SameHostOperators DEF Init, GeneratorInit, Table!Init
<1>2. NetworkInv /\ [Next]_vars => [Table!Next]_(Table!vars)
  <2> SUFFICES ASSUME NetworkInv, [Next]_vars PROVE Table!Next \/ UNCHANGED Table!vars
    OBVIOUS
  <2>1. GeneratorInv
    BY DEF NetworkInv
  <2>2. UNCHANGED generatorVars => UNCHANGED Table!vars
    BY GeneratorIdleImplements
  <2>3. CASE DatabaseTick
    BY <2>2, <2>3 DEF DatabaseTick
  <2>4. CASE GatesTick
    BY <2>2, <2>4 DEF GatesTick
  <2>5. CASE TrafficTick
    BY <2>1, <2>5, StartCycleImplements, SendPacketImplements
       DEF TrafficTick, GeneratorTick, Table!Next
  <2>6. ASSUME NEW d \in Device, SwapEntry(d)
        PROVE  Table!Next \/ UNCHANGED Table!vars
    <3> DEFINE e == plan.swaps[scheduleSwap[d].index + 1]
    <3>1. Load(d, e) /\ (Loads(e) => Configuration(e.configuration))
      BY <2>6, SwapGives
    <3> HIDE DEF e
    <3>2. CASE UNCHANGED generatorVars
      BY <2>2, <3>2
    <3>3. CASE Loads(e) /\ LoadHostSchedule(e.configuration.host)
      <4>1. Table!Request
        BY <2>1, <3>1, <3>3, LoadHostScheduleImplements DEF Configuration
      <4> QED
        BY <4>1 DEF Table!Next
    <3> QED
      BY <3>1, <3>2, <3>3 DEF Load
  <2>7. ASSUME NEW d \in Device, SwapNothing(d)
        PROVE  Table!Next \/ UNCHANGED Table!vars
    BY <2>2, <2>7 DEF SwapNothing
  <2>8. CASE Elapse
    BY <2>1, <2>8, GeneratorElapseImplements DEF Elapse, Table!Next
  <2>9. CASE UNCHANGED vars
    BY <2>2, <2>9 DEF vars
  <2> QED
    BY <2>3, <2>4, <2>5, <2>6, <2>7, <2>8, <2>9 DEF Next
<1> QED
  BY <1>1, <1>2, NetworkIsConsistent, PTL DEF Spec, RunsItsTimetable, Table!Spec

-----------------------------------------------------------------------------
(* The phases of the cycles *)

LEMMA Multiples ==
  ASSUME NEW c \in Nat \ {0}
  PROVE  \A x \in {-c, 0, c, 2 * c} : x % c = 0
<1>1. 0 % c = 0
  OBVIOUS
<1>2. c % c = 0
  OBVIOUS
<1>3. (2 * c) % c = 0
  OBVIOUS
<1>4. (-c) % c = 0
  OBVIOUS
<1> QED
  BY <1>1, <1>2, <1>3, <1>4

\* Every schedule that is in force or waits has the one cycle, and the three
\* cycles of the devices are in step: at an instant of ticks some of them may
\* have begun again before the others.
OneCycle ==
  LET c == plan.initial.cycle
  IN  /\ cycle = c /\ newCycle = c
      /\ ~IsEmpty(currentSchedule) => CycleLength(currentSchedule) = c
      /\ nextSchedule # NoSchedule => CycleLength(nextSchedule) = c
      /\ hostSchedule.cycle = c
      /\ nextHostSchedule # NoHostSchedule => nextHostSchedule.cycle = c

InStep ==
  LET c == plan.initial.cycle
  IN  /\ Position - HostPosition \in {-c, 0, c}
      /\ HostPosition + untilDatabase \in {0, c, 2 * c}

PhaseInv == OneCycle /\ InStep

\* What a device has been given has the cycle of the plan.
LEMMA UniformFacts ==
  ASSUME NetworkInv, Uniform
  PROVE  /\ plan.initial.cycle \in Nat \ {0}
         /\ CycleLength(plan.initial.gates) = plan.initial.cycle
         /\ plan.initial.host.cycle = plan.initial.cycle
         /\ CycleLength(GatesGiven) = plan.initial.cycle
         /\ HostGiven.cycle = plan.initial.cycle
         /\ \A i \in 1 .. Len(plan.swaps) :
              Loads(plan.swaps[i]) => plan.swaps[i].configuration.cycle = plan.initial.cycle
<1>1. plan \in Plans /\ Len(plan.swaps) \in Nat /\ plan.initial.cycle \in Nat \ {0}
  BY PlanFacts DEF NetworkInv, PlanInv, Configuration
<1>2. ConfigurationAfter(0) = plan.initial /\ 0 \in 0 .. Len(plan.swaps)
  BY <1>1, ConfigurationBefore
<1>3. /\ scheduleSwap["switch"].index \in 0 .. Len(plan.swaps)
      /\ scheduleSwap["host"].index \in 0 .. Len(plan.swaps)
  BY SwapIndices DEF NetworkInv
<1>4. \A n \in 0 .. Len(plan.swaps) :
        /\ ConfigurationAfter(n).cycle = plan.initial.cycle
        /\ CycleLength(ConfigurationAfter(n).gates) = plan.initial.cycle
        /\ ConfigurationAfter(n).host.cycle = plan.initial.cycle
  BY DEF Uniform
<1>5. CycleLength(GatesGiven) = plan.initial.cycle /\ HostGiven.cycle = plan.initial.cycle
  BY <1>3, <1>4 DEF GatesGiven, HostGiven
<1>6. ASSUME NEW i \in 1 .. Len(plan.swaps), Loads(plan.swaps[i])
      PROVE  plan.swaps[i].configuration.cycle = plan.initial.cycle
  <2>1. i \in Nat \ {0} /\ i \in 0 .. Len(plan.swaps)
    BY <1>1
  <2>2. ConfigurationAfter(i) = plan.swaps[i].configuration
    BY <1>6, <2>1, ConfigurationAfterSwap
  <2> QED
    BY <1>4, <2>1, <2>2
<1>7. /\ CycleLength(plan.initial.gates) = plan.initial.cycle
      /\ plan.initial.host.cycle = plan.initial.cycle
  BY <1>2, <1>4
<1> QED
  BY <1>1, <1>5, <1>6, <1>7

LEMMA UniformStays ==
  ASSUME NetworkInv, [Next]_vars
  PROVE  plan' = plan /\ (Uniform' <=> Uniform)
<1>1. plan' = plan
  BY DEF Next, DatabaseTick, GatesTick, TrafficTick, SwapEntry, SwapNothing, Elapse, vars
<1> QED
  BY <1>1, SamePlan DEF Uniform

\* Where the three cycles can be.
LEMMA CyclesAreBounded ==
  ASSUME NetworkInv, OneCycle
  PROVE  LET c == plan.initial.cycle
         IN  /\ c \in Nat \ {0}
             /\ Position \in 0 .. c
             /\ HostPosition \in 0 .. c
             /\ untilDatabase \in 0 .. c
<1>1. plan.initial.cycle \in Nat \ {0}
  BY PlanFacts DEF NetworkInv, PlanInv, Configuration
<1>2. Position \in Nat /\ Position <= CycleLength(currentSchedule)
      /\ CycleLength(currentSchedule) \in Nat
  BY PositionInCycle DEF NetworkInv, GatesInv
<1>3. IsEmpty(currentSchedule) => Position = 0
  BY DEF Position
<1>4. HostPosition \in 0 .. hostSchedule.cycle
  BY HostPositionIsDue DEF NetworkInv
<1> QED
  BY <1>1, <1>2, <1>3, <1>4 DEF NetworkInv, DatabaseInv, OneCycle

LEMMA PhaseInit ==
  ASSUME Init, Uniform
  PROVE  PhaseInv
<1>1. NetworkInv /\ Position = 0 /\ HostPosition = 0
  BY NetworkInit
<1>2. /\ cycle = plan.initial.cycle /\ newCycle = plan.initial.cycle
      /\ currentSchedule = <<>> /\ nextSchedule = plan.initial.gates
      /\ hostSchedule = plan.initial.host /\ nextHostSchedule = NoHostSchedule
      /\ untilDatabase = 0
  BY DEF Init, ControllerInit, GeneratorInit
<1> QED
  BY <1>1, <1>2, UniformFacts DEF PhaseInv, OneCycle, InStep, IsEmpty

LEMMA PhaseStep ==
  ASSUME NetworkInv, NetworkInv', PhaseInv, Uniform, Uniform', [Next]_vars
  PROVE  PhaseInv'
<1> DEFINE c == plan.initial.cycle
<1>1. plan' = plan /\ c \in Nat \ {0}
      /\ Position \in 0 .. c /\ HostPosition \in 0 .. c /\ untilDatabase \in 0 .. c
  BY UniformStays, CyclesAreBounded DEF PhaseInv
<1>2. /\ CycleLength(GatesGiven') = c /\ HostGiven'.cycle = c
  <2>1. /\ scheduleSwap' \in [Device -> [index : 0 .. Len(plan.swaps), until : Int]]
        /\ "switch" \in Device /\ "host" \in Device
    BY <1>1 DEF NetworkInv, PlanInv, Device
  <2>2. /\ scheduleSwap'["switch"].index \in 0 .. Len(plan.swaps)
        /\ scheduleSwap'["host"].index \in 0 .. Len(plan.swaps)
    BY <2>1
  <2>3. /\ GatesGiven' = ConfigurationAfter(scheduleSwap'["switch"].index).gates
        /\ HostGiven' = ConfigurationAfter(scheduleSwap'["host"].index).host
    BY <1>1, SamePlan DEF GatesGiven, HostGiven
  <2>4. /\ CycleLength(ConfigurationAfter(scheduleSwap'["switch"].index).gates) = c
        /\ ConfigurationAfter(scheduleSwap'["host"].index).host.cycle = c
    BY <2>2 DEF Uniform
  <2> QED
    BY <2>3, <2>4
<1>3. /\ cycle = c /\ newCycle = c
      /\ ~IsEmpty(currentSchedule) => CycleLength(currentSchedule) = c
      /\ nextSchedule # NoSchedule => CycleLength(nextSchedule) = c
      /\ hostSchedule.cycle = c
      /\ nextHostSchedule # NoHostSchedule => nextHostSchedule.cycle = c
  BY DEF PhaseInv, OneCycle
<1>4. /\ Position - HostPosition \in {-c, 0, c}
      /\ HostPosition + untilDatabase \in {0, c, 2 * c}
  BY DEF PhaseInv, InStep
<1>5. \A i \in 1 .. Len(plan.swaps) :
        Loads(plan.swaps[i]) => plan.swaps[i].configuration.cycle = c
  BY UniformFacts
<1> HIDE DEF c
<1>6. ASSUME /\ cycle' = c /\ newCycle' = c
             /\ ~IsEmpty(currentSchedule') => CycleLength(currentSchedule') = c
             /\ nextSchedule' # NoSchedule => CycleLength(nextSchedule') = c
             /\ hostSchedule'.cycle = c
             /\ nextHostSchedule' # NoHostSchedule => nextHostSchedule'.cycle = c,
             Position' - HostPosition' \in {-c, 0, c},
             HostPosition' + untilDatabase' \in {0, c, 2 * c}
      PROVE  PhaseInv'
  BY <1>1, <1>6 DEF PhaseInv, OneCycle, InStep, c
<1>7. CASE DatabaseTick
  <2>1. Position' = Position /\ HostPosition' = HostPosition
    BY <1>7, DatabaseTickNetwork
  <2>2. untilDatabase = 0 /\ untilDatabase' = cycle' /\ cycle' \in {cycle, newCycle}
        /\ UNCHANGED <<controllerVars, generatorVars, newCycle>>
    BY <1>7 DEF DatabaseTick, IsCalled, Until
  <2>3. UNCHANGED <<currentSchedule, nextSchedule, hostSchedule, nextHostSchedule>>
    BY <2>2 DEF controllerVars, generatorVars
  <2>4. cycle' = c /\ newCycle' = c
    BY <1>3, <2>2
  <2>5. HostPosition' + untilDatabase' \in {0, c, 2 * c}
    BY <1>1, <1>4, <2>1, <2>2, <2>4
  <2>6. Position' - HostPosition' \in {-c, 0, c}
    BY <1>4, <2>1
  <2> QED
    BY <1>3, <1>6, <2>3, <2>4, <2>5, <2>6
<1>8. CASE GatesTick
  <2>1. HostPosition' = HostPosition
        /\ IF scheduleIndex = 0
             THEN Position = CycleLength(currentSchedule) /\ Position' = 0
             ELSE Position' = Position /\ UNCHANGED <<currentSchedule, nextSchedule>>
    BY <1>8, GatesTickNetwork
  <2>2. /\ UNCHANGED <<generatorVars, databaseVars>>
        /\ currentSchedule' = TickSchedule /\ nextSchedule' = TickNextSchedule
    BY <1>8 DEF GatesTick, TickEntry
  <2>3. UNCHANGED <<hostSchedule, nextHostSchedule, cycle, newCycle, untilDatabase>>
    BY <2>2 DEF generatorVars, databaseVars
  <2>4. /\ ~IsEmpty(currentSchedule') => CycleLength(currentSchedule') = c
        /\ nextSchedule' # NoSchedule => CycleLength(nextSchedule') = c
    BY <1>3, <2>2 DEF TickSchedule, TickNextSchedule, SwapsSchedule
  <2>5. CASE scheduleIndex = 0 /\ ~IsEmpty(currentSchedule)
    <3>1. /\ Position' - HostPosition' \in {-c, 0, c}
          /\ HostPosition' + untilDatabase' \in {0, c, 2 * c}
      BY <1>1, <1>3, <1>4, <2>1, <2>3, <2>5
    <3> QED
      BY <1>3, <1>6, <2>3, <2>4, <3>1
  <2>6. CASE IsEmpty(currentSchedule) \/ scheduleIndex # 0
    <3>1. Position' = Position
      BY <2>1, <2>6 DEF Position
    <3> QED
      BY <1>3, <1>4, <1>6, <2>1, <2>3, <2>4, <3>1
  <2> QED
    BY <2>5, <2>6
<1>9. CASE TrafficTick
  <2>1. /\ Position' = Position
        /\ \/ /\ HostPosition' = HostPosition
              /\ UNCHANGED <<hostSchedule, nextHostSchedule>>
           \/ /\ HostPosition = hostSchedule.cycle /\ HostPosition' = 0
              /\ hostSchedule' \in {hostSchedule, nextHostSchedule} \ {NoHostSchedule}
              /\ nextHostSchedule' = NoHostSchedule
    BY <1>9, TrafficTickNetwork
  <2>2. UNCHANGED <<controllerVars, databaseVars>>
    BY <1>9 DEF TrafficTick
  <2>3. UNCHANGED <<currentSchedule, nextSchedule, cycle, newCycle, untilDatabase>>
    BY <2>2 DEF controllerVars, databaseVars
  <2>4. CASE HostPosition' = HostPosition /\ UNCHANGED <<hostSchedule, nextHostSchedule>>
    BY <1>3, <1>4, <1>6, <2>1, <2>3, <2>4
  <2>5. CASE /\ HostPosition = hostSchedule.cycle /\ HostPosition' = 0
             /\ hostSchedule' \in {hostSchedule, nextHostSchedule} \ {NoHostSchedule}
             /\ nextHostSchedule' = NoHostSchedule
    <3>1. hostSchedule'.cycle = c /\ nextHostSchedule' = NoHostSchedule
      BY <1>3, <2>5
    <3>2. HostPosition = c /\ HostPosition' = 0
      BY <1>3, <2>5
    <3> QED
      <4>1. /\ Position' - HostPosition' \in {-c, 0, c}
            /\ HostPosition' + untilDatabase' \in {0, c, 2 * c}
        BY <1>1, <1>4, <2>1, <2>3, <3>2
      <4> QED
        BY <1>3, <1>6, <2>3, <3>1, <4>1
  <2> QED
    BY <2>1, <2>4, <2>5
<1>10. ASSUME NEW d \in Device, SwapEntry(d)
       PROVE  PhaseInv'
  <2>1. /\ Position' = Position /\ HostPosition' = HostPosition
        /\ UNCHANGED <<plan, currentSchedule, hostSchedule, cycle, untilDatabase>>
        /\ nextSchedule' \in {nextSchedule, GatesGiven'}
        /\ nextHostSchedule' \in {nextHostSchedule, HostGiven'}
        /\ newCycle' = newCycle
             \/ \E i \in 1 .. Len(plan.swaps) :
                  /\ Loads(plan.swaps[i])
                  /\ newCycle' = plan.swaps[i].configuration.cycle
    BY <1>10, SwapEntryNetwork
  <2> QED
    <3>1. newCycle' = c
      BY <1>3, <1>5, <2>1
    <3>2. /\ nextSchedule' # NoSchedule => CycleLength(nextSchedule') = c
          /\ nextHostSchedule' # NoHostSchedule => nextHostSchedule'.cycle = c
      BY <1>2, <1>3, <2>1
    <3> QED
      BY <1>3, <1>4, <1>6, <2>1, <3>1, <3>2
<1>11. ASSUME NEW d \in Device, SwapNothing(d)
       PROVE  PhaseInv'
  <2>1. Position' = Position /\ HostPosition' = HostPosition
    BY <1>11, SwapNothingNetwork
  <2>2. UNCHANGED <<currentSchedule, nextSchedule, hostSchedule, nextHostSchedule,
                    cycle, newCycle, untilDatabase>>
    BY <1>11 DEF SwapNothing, controllerVars, generatorVars, databaseVars
  <2> QED
    BY <1>3, <1>4, <1>6, <2>1, <2>2
<1>12. CASE Elapse
  <2>1. /\ ~IsEmpty(currentSchedule)
        /\ Position' = Position + 1 /\ HostPosition' = HostPosition + 1
        /\ untilDatabase' = untilDatabase - 1
        /\ UNCHANGED <<plan, currentSchedule, nextSchedule, hostSchedule,
                       nextHostSchedule, cycle, newCycle>>
    BY <1>12, ElapseNetwork
  <2>2. /\ Position' - HostPosition' = Position - HostPosition
        /\ HostPosition' + untilDatabase' = HostPosition + untilDatabase
    BY <1>1, <2>1
  <2> QED
    BY <1>3, <1>4, <1>6, <2>1, <2>2
<1>13. CASE UNCHANGED vars
  <2>1. Position' = Position /\ HostPosition' = HostPosition
    BY <1>13, NetworkIdle
  <2>2. UNCHANGED <<currentSchedule, nextSchedule, hostSchedule, nextHostSchedule,
                    cycle, newCycle, untilDatabase>>
    BY <1>13 DEF vars, controllerVars, generatorVars, databaseVars
  <2> QED
    BY <1>3, <1>4, <1>6, <2>1, <2>2
<1> QED
  BY <1>7, <1>8, <1>9, <1>10, <1>11, <1>12, <1>13 DEF Next

\* The gates open when the host's frames come, as long as the plan keeps the
\* length of the cycle: whenever each part takes a new schedule
\* (GateController.cc:112, VlanEtherTrafGenSched.cc:134), the host's, the gates'
\* and the database's cycles go on beginning at the same instants.
THEOREM PartsStayInPhase == Spec => []StaysInPhase
<1> DEFINE Inv == NetworkInv /\ (Uniform => PhaseInv)
<1>1. Init => Inv
  BY NetworkInit, PhaseInit
<1>2. Inv /\ [Next]_vars => Inv'
  <2> SUFFICES ASSUME Inv, [Next]_vars PROVE Inv'
    OBVIOUS
  <2>1. NetworkInv'
    BY NetworkStep
  <2>2. Uniform' <=> Uniform
    BY UniformStays
  <2> QED
    BY <2>1, <2>2, PhaseStep
<1>3. Inv => StaysInPhase
  <2> SUFFICES ASSUME NetworkInv, Uniform, PhaseInv PROVE InPhase
    BY DEF StaysInPhase
  <2>1. /\ cycle = plan.initial.cycle /\ cycle \in Nat \ {0}
        /\ Position - HostPosition \in {-cycle, 0, cycle}
        /\ HostPosition + untilDatabase \in {0, cycle, 2 * cycle}
    BY CyclesAreBounded DEF PhaseInv, OneCycle, InStep
  <2> QED
    BY <2>1, Multiples DEF InPhase
<1> HIDE DEF Inv
<1> QED
  BY <1>1, <1>2, <1>3, PTL DEF Spec
=============================================================================
