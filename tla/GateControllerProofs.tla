------------------------ MODULE GateControllerProofs ------------------------
(***************************************************************************)
(* The gate controller implements a cyclic program of gate states, for any *)
(* gates, schedules, clock rate and hold advance.                          *)
(*                                                                         *)
(* The controller counts entries and lets a clock wake it at the end of    *)
(* each; the program knows positions in a cycle.  The inductive invariant  *)
(* ties the two together: the gates are those of the entry before the      *)
(* index, and what has passed of it and what is left add up to its length. *)
(***************************************************************************)
EXTENDS GateHolds, FiniteSetTheorems, SequenceTheorems, TLAPS

-----------------------------------------------------------------------------
(* Sums *)

\* Every non-empty set of natural numbers has a least element: 0 .. n is a
\* strict subset of 0 .. m if n is less than m, and among finite sets that
\* relation is well-founded.
LEMMA LeastElement ==
  ASSUME NEW T \in SUBSET Nat, T # {}
  PROVE  \E n \in T : \A m \in T : n <= m
  <1> DEFINE R == StrictSubsetOrdering(Nat)
             U == {0 .. n : n \in T}
  <1>1. IsWellFoundedOn(R, FiniteSubsetsOf(Nat))
    BY FS_StrictSubsetOrderingWellFounded, Zenon
  <1>2. U \subseteq FiniteSubsetsOf(Nat)
    <2>1. \A n \in T : IsFiniteSet(0 .. n) /\ 0 .. n \subseteq Nat
      BY FS_Interval
    <2>2. QED
      BY <2>1 DEF FiniteSubsetsOf
  <1>3. U # {}
    OBVIOUS
  <1> HIDE DEF R
  <1>4. PICK x \in U : \A y \in U : ~(<<y, x>> \in R)
    BY <1>1, <1>2, <1>3, WFMin, Zenon
  <1>5. PICK n \in T : x = 0 .. n
    OBVIOUS
  <1>6. ASSUME NEW m \in T, m < n PROVE FALSE
    <2>1. 0 .. m \subseteq 0 .. n /\ n \notin 0 .. m /\ n \in 0 .. n
      BY <1>6
    <2>2. <<0 .. m, 0 .. n>> \in R
      BY <2>1 DEF R, StrictSubsetOrdering
    <2>3. QED
      BY <2>2, <1>4, <1>5
  <1>7. QED
    BY <1>6

\* What must hold for zero, and for a number if for the one before, holds for
\* every number.
LEMMA Induction ==
  ASSUME NEW m \in Nat, NEW T \in SUBSET (0 .. m), 0 \in T,
         \A n \in 1 .. m : n - 1 \in T => n \in T
  PROVE  T = 0 .. m
  <1> SUFFICES ASSUME (0 .. m) \ T # {} PROVE FALSE
    OBVIOUS
  <1> DEFINE U == (0 .. m) \ T
  <1>1. U \in SUBSET Nat /\ U # {}
    OBVIOUS
  <1>2. PICK n \in U : \A k \in U : n <= k
    BY <1>1, LeastElement
  <1>3. n \in 1 .. m /\ n - 1 \in 0 .. m /\ n - 1 < n
    OBVIOUS
  <1>4. n - 1 \in T
    BY <1>2, <1>3
  <1>5. QED
    BY <1>3, <1>4

\* The sums of the first elements of a list of summands, and no other function,
\* satisfy the equation by which the model defines them.
AreSums(f, m, a, d) ==
  /\ f \in [0 .. m -> Int]
  /\ f = [k \in 0 .. m |-> IF k = 0 THEN a ELSE f[k - 1] + d[k]]

LEMMA SumExists ==
  ASSUME NEW m \in Nat, NEW a \in Int, NEW d \in [1 .. m -> Int]
  PROVE  \E f : AreSums(f, m, a, d)
  <1> DEFINE IsSum(n, f) == /\ f \in [0 .. n -> Int]
                            /\ f[0] = a
                            /\ \A k \in 1 .. n : f[k] = f[k - 1] + d[k]
             T == {n \in 0 .. m : \E f : IsSum(n, f)}
  <1>1. 0 \in T
    <2>1. IsSum(0, [k \in 0 .. 0 |-> a])
      OBVIOUS
    <2>2. 0 \in 0 .. m
      OBVIOUS
    <2> HIDE DEF IsSum
    <2>3. QED
      BY <2>1, <2>2
  <1>2. ASSUME NEW n \in 1 .. m, n - 1 \in T
        PROVE  n \in T
    <2>1. PICK f : IsSum(n - 1, f)
      BY <1>2
    <2> DEFINE g == [k \in 0 .. n |-> IF k = n THEN f[n - 1] + d[n] ELSE f[k]]
    <2>2. n - 1 \in 0 .. n - 1 /\ f[n - 1] \in Int /\ d[n] \in Int /\ n # 0
      BY <2>1
    <2>3. g \in [0 .. n -> Int]
      <3>1. ASSUME NEW k \in 0 .. n, k # n PROVE f[k] \in Int
        <4>1. k \in 0 .. n - 1
          BY <3>1
        <4>2. QED
          BY <4>1, <2>1
      <3>2. QED
        BY <2>2, <3>1
    <2>4. g[0] = a
      BY <2>1, <2>2
    <2>5. ASSUME NEW k \in 1 .. n PROVE g[k] = g[k - 1] + d[k]
      <3>1. k - 1 \in 0 .. n /\ k - 1 # n /\ g[k - 1] = f[k - 1]
        OBVIOUS
      <3>2. CASE k = n
        BY <3>1, <3>2
      <3>3. CASE k # n
        <4>1. k \in 1 .. n - 1
          BY <3>3
        <4>2. f[k] = f[k - 1] + d[k]
          BY <2>1, <4>1
        <4>3. QED
          BY <3>1, <3>3, <4>2
      <3>4. QED
        BY <3>2, <3>3
    <2> HIDE DEF g
    <2>6. IsSum(n, g)
      BY <2>3, <2>4, <2>5
    <2>7. n \in 0 .. m
      OBVIOUS
    <2> HIDE DEF IsSum
    <2>8. QED
      BY <2>6, <2>7
  <1>3. T = 0 .. m
    <2> HIDE DEF T
    <2>1. T \in SUBSET (0 .. m)
      BY DEF T
    <2>2. \A n \in 1 .. m : n - 1 \in T => n \in T
      BY <1>2
    <2>3. QED
      BY <1>1, <2>1, <2>2, Induction
  <1>4. PICK f : IsSum(m, f)
    <2>1. m \in T
      <3> HIDE DEF T
      <3>1. QED
        BY <1>3
    <2> HIDE DEF IsSum
    <2>2. QED
      BY <2>1
  <1>5. f = [k \in 0 .. m |-> IF k = 0 THEN a ELSE f[k - 1] + d[k]]
    <2>1. \A k \in 0 .. m : f[k] = IF k = 0 THEN a ELSE f[k - 1] + d[k]
      BY <1>4
    <2>2. QED
      BY <1>4, <2>1
  <1>6. QED
    BY <1>4, <1>5 DEF AreSums

-----------------------------------------------------------------------------
(* When entries begin *)

LEMMA Durations ==
  ASSUME NEW s \in Schedule, NEW i \in 0 .. Len(s) - 1
  PROVE  Duration(s, i) \in Nat /\ Duration(s, i) >= ClockRate /\ Duration(s, i) > 0
  <1>1. s[i + 1] \in Entry
    BY DEF Schedule
  <1>2. s[i + 1].length \in Nat /\ s[i + 1].length >= 1
    BY <1>1 DEF Entry
  <1>3. \A n \in Nat, r \in Nat \ {0} : n >= 1 => n * r \in Nat /\ n * r >= r
    OBVIOUS
  <1>4. QED
    BY <1>2, <1>3, ClockRateAssumption DEF Duration

LEMMA Starts ==
  ASSUME NEW s \in Schedule
  PROVE  /\ StartOf(s, 0) = 0
         /\ \A k \in 0 .. Len(s) : StartOf(s, k) \in Int
         /\ \A k \in 0 .. Len(s) - 1 : StartOf(s, k + 1) = StartOf(s, k) + Duration(s, k)
  <1> DEFINE m == Len(s)
             start[k \in 0 .. m] == IF k = 0 THEN 0 ELSE start[k - 1] + Duration(s, k - 1)
             d == [k \in 1 .. m |-> Duration(s, k - 1)]
  <1>1. m \in Nat
    BY DEF Schedule
  <1>2. d \in [1 .. m -> Int]
    <2>1. \A k \in 1 .. m : k - 1 \in 0 .. Len(s) - 1
      BY <1>1
    <2>2. \A k \in 1 .. m : Duration(s, k - 1) \in Int
      BY <2>1, Durations
    <2>3. QED
      BY <2>2
  <1>3. PICK f \in [0 .. m -> Int] :
          f = [k \in 0 .. m |-> IF k = 0 THEN 0 ELSE f[k - 1] + d[k]]
    <2> HIDE DEF m, d
    <2>1. 0 \in Int
      OBVIOUS
    <2>2. PICK f : AreSums(f, m, 0, d)
      BY <1>1, <1>2, <2>1, SumExists
    <2>3. QED
      BY <2>2 DEF AreSums
  <1>4. f = [k \in 0 .. m |-> IF k = 0 THEN 0 ELSE f[k - 1] + Duration(s, k - 1)]
    <2>1. \A k \in 0 .. m : k # 0 => d[k] = Duration(s, k - 1)
      BY <1>1
    <2> HIDE DEF d, m
    <2>2. QED
      BY <1>3, <2>1
  <1>5. start = [k \in 0 .. m |-> IF k = 0 THEN 0 ELSE start[k - 1] + Duration(s, k - 1)]
    BY <1>4
  <1>6. \A k \in 0 .. m : StartOf(s, k) = start[k]
    BY DEF StartOf
  <1> HIDE DEF start, m, d
  <1>7. /\ start[0] = 0
        /\ \A k \in 1 .. m : start[k] = start[k - 1] + Duration(s, k - 1)
    <2>1. 0 \in 0 .. m /\ \A k \in 1 .. m : k \in 0 .. m /\ k # 0
      BY <1>1
    <2>2. QED
      BY <1>5, <2>1
  <1>8. start \in [0 .. m -> Int]
    <2> DEFINE T == {k \in 0 .. m : start[k] \in Int}
    <2>1. 0 \in T
      BY <1>1, <1>7
    <2>2. \A k \in 1 .. m : k - 1 \in T => k \in T
      <3>1. TAKE k \in 1 .. m
      <3>2. k - 1 \in 0 .. m /\ k \in 0 .. m /\ k - 1 \in 0 .. Len(s) - 1
        BY <1>1 DEF m
      <3>3. Duration(s, k - 1) \in Int
        BY <3>2, Durations
      <3>4. QED
        BY <1>7, <3>2, <3>3
    <2>3. T \in SUBSET (0 .. m)
      OBVIOUS
    <2>4. T = 0 .. m
      <3> HIDE DEF T
      <3>1. QED
        BY <1>1, <2>1, <2>2, <2>3, Induction
    <2>5. \A k \in 0 .. m : start[k] \in Int
      BY <2>4
    <2>6. QED
      BY <1>5, <2>5
  <1>9. ASSUME NEW k \in 0 .. Len(s) - 1
        PROVE  StartOf(s, k + 1) = StartOf(s, k) + Duration(s, k)
    <2>1. k + 1 \in 1 .. m /\ k \in 0 .. m /\ k + 1 \in 0 .. m /\ (k + 1) - 1 = k
      BY <1>1 DEF m
    <2>2. QED
      BY <1>6, <1>7, <2>1
  <1>10. StartOf(s, 0) = 0 /\ \A k \in 0 .. Len(s) : StartOf(s, k) \in Int
    <2>1. 0 \in 0 .. m /\ m = Len(s)
      BY <1>1 DEF m
    <2>2. QED
      BY <1>6, <1>7, <1>8, <2>1
  <1>11. QED
    BY <1>9, <1>10

\* Entries begin one after another.
LEMMA StartsAscend ==
  ASSUME NEW s \in Schedule, NEW i \in 0 .. Len(s), NEW j \in 0 .. Len(s), i <= j
  PROVE  StartOf(s, i) <= StartOf(s, j)
  <1> DEFINE T == {k \in 0 .. Len(s) : i <= k => StartOf(s, i) <= StartOf(s, k)}
  <1>1. Len(s) \in Nat
    BY DEF Schedule
  <1>2. 0 \in T
    BY <1>1, Starts
  <1>3. ASSUME NEW k \in 1 .. Len(s), k - 1 \in T
        PROVE  k \in T
    <2>1. k \in 0 .. Len(s) /\ k - 1 \in 0 .. Len(s) - 1 /\ (k - 1) + 1 = k
      BY <1>1
    <2>2. /\ StartOf(s, k) = StartOf(s, k - 1) + Duration(s, k - 1)
          /\ Duration(s, k - 1) \in Nat
          /\ StartOf(s, k - 1) \in Int /\ StartOf(s, k) \in Int /\ StartOf(s, i) \in Int
      <3>1. Duration(s, k - 1) \in Nat
        BY <2>1, Durations
      <3>2. StartOf(s, (k - 1) + 1) = StartOf(s, k - 1) + Duration(s, k - 1)
        BY <2>1, Starts
      <3>3. StartOf(s, k - 1) \in Int /\ StartOf(s, k) \in Int /\ StartOf(s, i) \in Int
        BY <1>3, <2>1, Starts
      <3>4. QED
        BY <2>1, <3>1, <3>2, <3>3
    <2>3. CASE i = k
      BY <2>1, <2>2, <2>3
    <2>4. CASE i # k
      <3>1. i <= k => i <= k - 1
        BY <2>1, <2>4
      <3>2. QED
        BY <1>3, <2>1, <2>2, <3>1
    <2>5. QED
      BY <2>3, <2>4
  <1>4. T \in SUBSET (0 .. Len(s))
    OBVIOUS
  <1>5. T = 0 .. Len(s)
    <2> HIDE DEF T
    <2>1. QED
      BY <1>1, <1>2, <1>3, <1>4, Induction
  <1>6. QED
    BY <1>5

\* There is one entry at a moment of a cycle.
LEMMA OneEntryAtATime ==
  ASSUME NEW s \in Schedule, NEW i \in 0 .. Len(s) - 1, NEW p \in Int,
         StartOf(s, i) <= p, p < StartOf(s, i + 1)
  PROVE  /\ 0 <= p /\ p < CycleLength(s)
         /\ (CHOOSE k \in 0 .. Len(s) - 1 : StartOf(s, k) <= p /\ p < StartOf(s, k + 1)) = i
  <1>1. Len(s) \in Nat /\ i \in 0 .. Len(s) /\ i + 1 \in 0 .. Len(s) /\ i + 1 <= Len(s)
        /\ 0 \in 0 .. Len(s) /\ Len(s) \in 0 .. Len(s) /\ 0 <= i
    BY DEF Schedule
  <1>2. /\ StartOf(s, 0) = 0
        /\ \A k \in 0 .. Len(s) : StartOf(s, k) \in Int
    BY Starts
  <1>3. StartOf(s, 0) <= StartOf(s, i) /\ StartOf(s, i + 1) <= StartOf(s, Len(s))
    BY <1>1, StartsAscend
  <1>4. ASSUME NEW k \in 0 .. Len(s) - 1, StartOf(s, k) <= p, p < StartOf(s, k + 1)
        PROVE  k = i
    <2>1. k \in 0 .. Len(s) /\ k + 1 \in 0 .. Len(s)
      BY <1>1
    <2>2. CASE k + 1 <= i
      <3>1. StartOf(s, k + 1) <= StartOf(s, i)
        BY <1>1, <2>1, <2>2, StartsAscend
      <3>2. QED
        BY <1>1, <1>2, <1>4, <2>1, <3>1
    <2>3. CASE i + 1 <= k
      <3>1. StartOf(s, i + 1) <= StartOf(s, k)
        BY <1>1, <2>1, <2>3, StartsAscend
      <3>2. QED
        BY <1>1, <1>2, <1>4, <2>1, <3>1
    <2>4. QED
      BY <1>1, <2>2, <2>3
  <1>5. 0 <= p /\ p < CycleLength(s)
    BY <1>1, <1>2, <1>3 DEF CycleLength
  <1> DEFINE E(k) == StartOf(s, k) <= p /\ p < StartOf(s, k + 1)
  <1>6. (CHOOSE k \in 0 .. Len(s) - 1 : E(k)) = i
    <2>1. E(i) /\ \A k \in 0 .. Len(s) - 1 : E(k) => k = i
      BY <1>4
    <2> HIDE DEF E
    <2>2. QED
      BY <2>1
  <1>7. QED
    BY <1>5, <1>6

-----------------------------------------------------------------------------
(* The inductive invariant *)

\* A controller without entries waits for its first tick or for none.
IdleInv ==
  IsEmpty(currentSchedule) => scheduleIndex = 0 /\ untilTick \in {0, Never}

\* One with entries has set the gates for the entry in force, which the
\* subscribed tick will end.
EntryInv ==
  ~IsEmpty(currentSchedule) =>
    /\ scheduleIndex \in 0 .. Len(currentSchedule) - 1
    /\ untilTick \in Nat
    /\ sinceLastChange + untilTick = Duration(currentSchedule, CurrentIndex)
    /\ gateOpen = Object(currentSchedule, CurrentIndex)

ControllerInv ==
  /\ currentSchedule \in Schedule
  /\ nextSchedule \in Schedule \cup {NoSchedule}
  /\ scheduleIndex \in Nat
  /\ sinceLastChange \in Nat
  /\ untilTick \in Nat \cup {Never}
  /\ gateOpen \in SUBSET Gate
  /\ IdleInv
  /\ EntryInv

LEMMA Indices ==
  ASSUME NEW n \in Nat \ {0}, NEW i \in 0 .. n - 1
  PROVE  /\ (i + 1) % n = IF i = n - 1 THEN 0 ELSE i + 1
         /\ (i + n - 1) % n = IF i = 0 THEN n - 1 ELSE i - 1
  <1>1. (i + 1) % n = IF i = n - 1 THEN 0 ELSE i + 1
    OBVIOUS
  <1>2. CASE i = 0
    <2>1. (i + n - 1) = n - 1 /\ (n - 1) % n = n - 1
      BY <1>2
    <2>2. QED
      BY <1>1, <1>2, <2>1
  <1>3. CASE i # 0
    <2>1. (i - 1 + n) % n = i - 1
      BY <1>3
    <2>2. i + n - 1 = i - 1 + n
      OBVIOUS
    <2>3. QED
      BY <1>1, <1>3, <2>1, <2>2
  <1>4. QED
    BY <1>2, <1>3

LEMMA NonEmptySchedule ==
  ASSUME NEW s \in Schedule, ~IsEmpty(s)
  PROVE  /\ Len(s) \in Nat \ {0}
         /\ \A i \in 0 .. Len(s) - 1 : Object(s, i) \in SUBSET Gate
  <1>1. Len(s) \in Nat /\ Len(s) # 0
    BY DEF Schedule, IsEmpty
  <1>2. ASSUME NEW i \in 0 .. Len(s) - 1
        PROVE  Object(s, i) \in SUBSET Gate
    <2>1. s[i + 1] \in Entry
      BY <1>1 DEF Schedule
    <2>2. QED
      BY <2>1 DEF Object, Entry
  <1>3. QED
    BY <1>1, <1>2

LEMMA NeverIsNoTime == Never \notin Nat
  BY DEF Never

LEMMA ControllerInitInv ==
  ASSUME ControllerInit
  PROVE  ControllerInv
  <1>1. <<>> \in Schedule /\ nextSchedule \in Schedule
    BY SchedulesAssumption, EmptySeq DEF ControllerInit, Schedule
  <1>2. QED
    BY <1>1 DEF ControllerInit, ControllerInv, IdleInv, EntryInv, IsEmpty

\* A tick applies entry i of the schedule of this cycle.
LEMMA TickEntryInv ==
  ASSUME ControllerInv, TickEntry
  PROVE  /\ ControllerInv'
         /\ currentSchedule' \in Schedule /\ ~IsEmpty(currentSchedule')
         /\ currentSchedule' = TickSchedule /\ nextSchedule' = TickNextSchedule
         /\ scheduleIndex \in 0 .. Len(currentSchedule') - 1
         /\ CurrentIndex' = scheduleIndex
         /\ sinceLastChange' = 0
         /\ gateOpen' = Object(currentSchedule', scheduleIndex)
  <1> DEFINE s == TickSchedule
             i == scheduleIndex
  <1>1. s \in Schedule /\ ~IsEmpty(s)
    BY DEF ControllerInv, TickEntry, TickSchedule, SwapsSchedule
  <1>2. Len(s) \in Nat \ {0} /\ \A k \in 0 .. Len(s) - 1 : Object(s, k) \in SUBSET Gate
    BY <1>1, NonEmptySchedule
  <1>3. i \in 0 .. Len(s) - 1
    BY <1>1, <1>2 DEF ControllerInv, IdleInv, EntryInv, TickSchedule, SwapsSchedule, IsEmpty
  <1>4. /\ currentSchedule' = s /\ nextSchedule' = TickNextSchedule
        /\ gateOpen' = Object(s, i) /\ untilTick' = Duration(s, i)
        /\ sinceLastChange' = 0 /\ scheduleIndex' = (i + 1) % Len(s)
    BY DEF TickEntry, NextIndex
  <1>5. nextSchedule' \in Schedule \cup {NoSchedule}
    BY <1>4 DEF ControllerInv, TickNextSchedule
  <1>6. Duration(s, i) \in Nat
    BY <1>1, <1>3, Durations
  <1> HIDE DEF s
  <1>7. /\ scheduleIndex' \in 0 .. Len(s) - 1
        /\ (scheduleIndex' + Len(s) - 1) % Len(s) = i
    <2>1. scheduleIndex' = IF i = Len(s) - 1 THEN 0 ELSE i + 1
      BY <1>2, <1>3, <1>4, Indices
    <2>2. scheduleIndex' \in 0 .. Len(s) - 1
      BY <1>2, <1>3, <2>1
    <2>3. (scheduleIndex' + Len(s) - 1) % Len(s) =
            IF scheduleIndex' = 0 THEN Len(s) - 1 ELSE scheduleIndex' - 1
      BY <1>2, <2>2, Indices
    <2>4. CASE i = Len(s) - 1
      BY <1>2, <2>1, <2>2, <2>3, <2>4
    <2>5. CASE i # Len(s) - 1
      <3>1. scheduleIndex' = i + 1 /\ i + 1 # 0
        BY <1>2, <1>3, <2>1, <2>5
      <3>2. QED
        BY <1>2, <1>3, <2>2, <2>3, <3>1
    <2>6. QED
      BY <2>4, <2>5
  <1>8. CurrentIndex' = i
    BY <1>4, <1>7 DEF CurrentIndex
  <1>9. EntryInv' /\ IdleInv'
    BY <1>1, <1>4, <1>6, <1>7, <1>8 DEF EntryInv, IdleInv
  <1>10. ControllerInv'
    BY <1>1, <1>2, <1>3, <1>4, <1>5, <1>6, <1>7, <1>9 DEF ControllerInv
  <1>11. QED
    BY <1>1, <1>3, <1>4, <1>8, <1>10 DEF s

LEMMA TickEmptyScheduleInv ==
  ASSUME ControllerInv, TickEmptySchedule
  PROVE  ControllerInv'
  <1>1. currentSchedule' = nextSchedule /\ nextSchedule' = NoSchedule /\ nextSchedule = <<>>
        /\ nextSchedule \in Schedule /\ untilTick' = Never /\ scheduleIndex = 0
        /\ UNCHANGED <<scheduleIndex, sinceLastChange>>
    BY DEF ControllerInv, TickEmptySchedule, SwapsSchedule, IsEmpty
  <1>2. gateOpen' \in SUBSET Gate
    BY DEF ControllerInv, TickEmptySchedule, OpenAllGates
  <1>3. QED
    BY <1>1, <1>2 DEF ControllerInv, IdleInv, EntryInv, IsEmpty

LEMMA LoadScheduleInv ==
  ASSUME ControllerInv, NEW s \in Schedule, LoadSchedule(s)
  PROVE  ControllerInv'
  BY DEF ControllerInv, LoadSchedule, IdleInv, EntryInv, CurrentIndex

LEMMA HoldRequestInv ==
  ASSUME ControllerInv, HoldRequest
  PROVE  ControllerInv'
  BY DEF ControllerInv, HoldRequest, IdleInv, EntryInv, CurrentIndex

LEMMA ControllerElapseInv ==
  ASSUME ControllerInv, ControllerElapse
  PROVE  ControllerInv'
  <1>1. UNCHANGED <<currentSchedule, nextSchedule, scheduleIndex, gateOpen>>
    BY DEF ControllerElapse
  <1>2. CurrentIndex' = CurrentIndex
    BY <1>1 DEF CurrentIndex
  <1>3. CASE untilTick = Never
    <2>1. UNCHANGED <<untilTick, sinceLastChange>>
      BY <1>3 DEF ControllerElapse
    <2>2. QED
      BY <1>1, <1>2, <2>1 DEF ControllerInv, IdleInv, EntryInv
  <1>4. CASE untilTick # Never
    <2>1. untilTick' = untilTick - 1 /\ sinceLastChange' = sinceLastChange + 1
      BY <1>4 DEF ControllerElapse
    <2>2. untilTick \in Nat /\ untilTick # 0
      BY <1>4 DEF ControllerInv, ControllerElapse, ControllerQuiet
    <2>3. ~IsEmpty(currentSchedule)
      BY <1>4, <2>2 DEF ControllerInv, IdleInv
    <2>4. Duration(currentSchedule, CurrentIndex) = sinceLastChange + untilTick
      BY <2>3 DEF ControllerInv, EntryInv
    <2>5. sinceLastChange' + untilTick' = Duration(currentSchedule, CurrentIndex)
      BY <2>1, <2>2, <2>4 DEF ControllerInv
    <2>6. untilTick' \in Nat /\ sinceLastChange' \in Nat
      BY <2>1, <2>2 DEF ControllerInv
    <2>7. QED
      BY <1>1, <1>2, <2>3, <2>5, <2>6 DEF ControllerInv, IdleInv, EntryInv
  <1>5. QED
    BY <1>3, <1>4

\* The index and the subscription fit the schedule, the gates its entry.
THEOREM ControllerIsConsistent == ControllerSpec => []ControllerInv
  <1>1. ControllerInit => ControllerInv
    BY ControllerInitInv
  <1>2. ControllerInv /\ [ControllerNext]_controllerVars => ControllerInv'
    <2> SUFFICES ASSUME ControllerInv, [ControllerNext]_controllerVars PROVE ControllerInv'
      OBVIOUS
    <2>1. CASE Tick
      BY <2>1, TickEntryInv, TickEmptyScheduleInv DEF Tick
    <2>2. CASE HoldRequest
      BY <2>2, HoldRequestInv
    <2>3. CASE ControllerElapse
      BY <2>3, ControllerElapseInv
    <2>4. CASE \E s \in SwapSchedules : LoadSchedule(s)
      BY <2>4, LoadScheduleInv, SchedulesAssumption
    <2>5. CASE UNCHANGED controllerVars
      BY <2>5 DEF controllerVars, ControllerInv, IdleInv, EntryInv, CurrentIndex
    <2>6. QED
      BY <2>1, <2>2, <2>3, <2>4, <2>5 DEF ControllerNext
  <1>3. QED
    BY <1>1, <1>2, PTL DEF ControllerSpec

-----------------------------------------------------------------------------
(* The cyclic program *)

\* Under length-aware scheduling an empty schedule ends the run.
NoEmptyIfLengthAware ==
  LengthAware => <<>> \notin InitialSchedules \cup SwapSchedules

\* Where a controller with entries is in its cycle.
LEMMA PositionInEntry ==
  ASSUME ControllerInv, ~IsEmpty(currentSchedule)
  PROVE  LET s == currentSchedule
             i == CurrentIndex
         IN  /\ i \in 0 .. Len(s) - 1
             /\ i = IF scheduleIndex = 0 THEN Len(s) - 1 ELSE scheduleIndex - 1
             /\ Position = StartOf(s, i) + sinceLastChange
             /\ StartOf(s, i + 1) = Position + untilTick
             /\ Position \in Nat /\ StartOf(s, i) \in Nat
  <1> DEFINE s == currentSchedule
             i == CurrentIndex
  <1>1. /\ s \in Schedule /\ Len(s) \in Nat \ {0} /\ scheduleIndex \in 0 .. Len(s) - 1
        /\ untilTick \in Nat /\ sinceLastChange \in Nat
        /\ sinceLastChange + untilTick = Duration(s, i)
    BY NonEmptySchedule DEF ControllerInv, EntryInv
  <1>2. i = IF scheduleIndex = 0 THEN Len(s) - 1 ELSE scheduleIndex - 1
    BY <1>1, Indices DEF CurrentIndex
  <1>3. i \in 0 .. Len(s) - 1
    BY <1>1, <1>2
  <1> HIDE DEF s, i
  <1>4. /\ StartOf(s, i + 1) = StartOf(s, i) + Duration(s, i)
        /\ StartOf(s, i) \in Int /\ StartOf(s, 0) = 0
    <2>1. i \in 0 .. Len(s)
      BY <1>1, <1>3
    <2>2. QED
      BY <1>1, <1>3, <2>1, Starts
  <1>5. StartOf(s, 0) <= StartOf(s, i)
    <2>1. i \in 0 .. Len(s) /\ 0 \in 0 .. Len(s) /\ 0 <= i
      BY <1>1, <1>3
    <2>2. QED
      BY <1>1, <2>1, StartsAscend
  <1>6. Position = StartOf(s, i) + sinceLastChange
    BY DEF Position, s, i
  <1>7. QED
    BY <1>1, <1>2, <1>3, <1>4, <1>5, <1>6 DEF s, i

\* A tick at the end of a cycle comes when the position is the cycle's length.
LEMMA PositionAtTick ==
  ASSUME ControllerInv, untilTick = 0
  PROVE  /\ scheduleIndex = 0 => Position = CycleLength(currentSchedule)
         /\ scheduleIndex # 0 =>
              /\ ~IsEmpty(currentSchedule)
              /\ scheduleIndex \in 0 .. Len(currentSchedule) - 1
              /\ Position = StartOf(currentSchedule, scheduleIndex)
  <1> DEFINE s == currentSchedule
  <1>1. CASE IsEmpty(s)
    <2>1. s = <<>> /\ <<>> \in Schedule /\ Len(<<>>) = 0
      BY <1>1, EmptySeq DEF IsEmpty, Schedule
    <2>2. StartOf(s, 0) = 0
      BY <2>1, Starts
    <2>3. QED
      BY <1>1, <2>1, <2>2 DEF Position, CycleLength, ControllerInv, IdleInv
  <1>2. CASE ~IsEmpty(s)
    <2>1. /\ CurrentIndex \in 0 .. Len(s) - 1
          /\ CurrentIndex = IF scheduleIndex = 0 THEN Len(s) - 1 ELSE scheduleIndex - 1
          /\ StartOf(s, CurrentIndex + 1) = Position + untilTick /\ Position \in Nat
          /\ scheduleIndex \in 0 .. Len(s) - 1 /\ Len(s) \in Nat
      BY <1>2, PositionInEntry, NonEmptySchedule DEF ControllerInv, EntryInv
    <2>2. CurrentIndex + 1 = IF scheduleIndex = 0 THEN Len(s) ELSE scheduleIndex
      BY <2>1
    <2>3. QED
      BY <1>2, <2>1, <2>2 DEF CycleLength
  <1>3. QED
    BY <1>1, <1>2

\* The program's module has these operators once more.
LEMMA SameOperators ==
  /\ \A s, i : Program!StartOf(s, i) = StartOf(s, i)
  /\ \A s : Program!CycleLength(s) = CycleLength(s)
  /\ \A s : Program!IsEmpty(s) <=> IsEmpty(s)
  /\ \A s, i : Program!Object(s, i) = Object(s, i)
  /\ Program!Schedule = Schedule
  <1>1. \A s, i : Program!Duration(s, i) = Duration(s, i)
    BY DEF Duration, Program!Duration
  <1>2. \A s, i : Program!StartOf(s, i) = StartOf(s, i)
    BY <1>1 DEF StartOf, Program!StartOf
  <1>3. QED
    BY <1>2 DEF CycleLength, Program!CycleLength, IsEmpty, Program!IsEmpty,
                Object, Program!Object, Schedule, Program!Schedule, Entry, Program!Entry

\* What the program prescribes at a moment within entry i.
LEMMA PrescribedInEntry ==
  ASSUME NEW s \in Schedule, ~IsEmpty(s), NEW i \in 0 .. Len(s) - 1, NEW p \in Int,
         StartOf(s, i) <= p, p < StartOf(s, i + 1)
  PROVE  p < CycleLength(s) /\ Program!Prescribed(s, p) = Object(s, i)
  <1>1. /\ p < CycleLength(s)
        /\ (CHOOSE k \in 0 .. Len(s) - 1 : StartOf(s, k) <= p /\ p < StartOf(s, k + 1)) = i
    BY OneEntryAtATime
  <1>2. Program!Prescribed(s, p) =
          Object(s, CHOOSE k \in 0 .. Len(s) - 1 : StartOf(s, k) <= p /\ p < StartOf(s, k + 1))
    BY SameOperators DEF Program!Prescribed
  <1>3. QED
    BY <1>1, <1>2

\* Entry i of a schedule begins.
LEMMA EntryBegins ==
  ASSUME NEW s \in Schedule, ~IsEmpty(s), NEW i \in 0 .. Len(s) - 1
  PROVE  /\ StartOf(s, i) < CycleLength(s)
         /\ Program!Prescribed(s, StartOf(s, i)) = Object(s, i)
  <1>1. Len(s) \in Nat /\ i \in 0 .. Len(s)
    BY NonEmptySchedule
  <1>2. StartOf(s, i) \in Int /\ StartOf(s, i) < StartOf(s, i + 1)
    <2>1. StartOf(s, i + 1) = StartOf(s, i) + Duration(s, i)
      BY Starts
    <2>2. StartOf(s, i) \in Int
      BY <1>1, Starts
    <2>3. Duration(s, i) \in Nat /\ Duration(s, i) > 0
      BY Durations
    <2>4. QED
      BY <2>1, <2>2, <2>3
  <1>3. QED
    BY <1>2, PrescribedInEntry

LEMMA TickEntryImplements ==
  ASSUME ControllerInv, TickEntry
  PROVE  Program!Next
  <1> DEFINE s == currentSchedule'
             i == scheduleIndex
  <1>1. /\ s \in Schedule /\ ~IsEmpty(s) /\ i \in 0 .. Len(s) - 1
        /\ s = TickSchedule /\ nextSchedule' = TickNextSchedule
        /\ CurrentIndex' = i /\ sinceLastChange' = 0
        /\ gateOpen' = Object(s, i)
    BY TickEntryInv
  <1>2. Position' = StartOf(s, i)
    <2>1. StartOf(s, i) \in Int
      <3>1. i \in 0 .. Len(s)
        BY <1>1, NonEmptySchedule
      <3>2. QED
        BY <1>1, <3>1, Starts
    <2>2. QED
      BY <1>1, <2>1 DEF Position
  <1>3. StartOf(s, i) < CycleLength(s) /\ Program!Prescribed(s, StartOf(s, i)) = Object(s, i)
    BY <1>1, EntryBegins
  <1>4. untilTick = 0
    BY DEF TickEntry
  <1>5. CASE i = 0
    <2>1. Position = CycleLength(currentSchedule)
      BY <1>4, <1>5, PositionAtTick
    <2>2. StartOf(s, 0) = 0
      BY <1>1, Starts
    <2>3. /\ currentSchedule' = IF nextSchedule = NoSchedule THEN currentSchedule ELSE nextSchedule
          /\ nextSchedule' = NoSchedule
      BY <1>1, <1>5 DEF TickSchedule, TickNextSchedule, SwapsSchedule
    <2>4. gateOpen' = Program!Prescribed(currentSchedule', 0) /\ Position' = 0
      BY <1>1, <1>2, <1>3, <1>5, <2>2
    <2>5. Program!Restart
      BY <2>1, <2>3, <2>4, SameOperators DEF Program!Restart
    <2>6. QED
      BY <2>5 DEF Program!Next
  <1>6. CASE i # 0
    <2>1. UNCHANGED <<currentSchedule, nextSchedule>>
      BY <1>1, <1>6 DEF TickSchedule, TickNextSchedule, SwapsSchedule
    <2>2. Position = StartOf(s, i) /\ Position' = Position
      BY <1>2, <1>4, <1>6, <2>1, PositionAtTick
    <2>3. Position < CycleLength(currentSchedule)
          /\ gateOpen' = Program!Prescribed(currentSchedule, Position)
      BY <1>1, <1>3, <2>1, <2>2
    <2>4. Program!Switch
      BY <2>1, <2>2, <2>3, SameOperators DEF Program!Switch
    <2>5. QED
      BY <2>4 DEF Program!Next
  <1>7. QED
    BY <1>5, <1>6

LEMMA TickEmptyScheduleImplements ==
  ASSUME ControllerInv, TickEmptySchedule, ~LengthAware
  PROVE  Program!Next
  <1>1. /\ currentSchedule' = <<>> /\ nextSchedule # NoSchedule
        /\ currentSchedule' = nextSchedule /\ nextSchedule' = NoSchedule
        /\ scheduleIndex = 0 /\ untilTick = 0 /\ gateOpen' = Gate
    BY DEF TickEmptySchedule, SwapsSchedule, IsEmpty, OpenAllGates
  <1>2. Position = CycleLength(currentSchedule)
    BY <1>1, PositionAtTick
  <1>3. Position' = 0
    BY <1>1 DEF Position, IsEmpty
  <1>4. Program!Prescribed(currentSchedule', 0) = Gate
    BY <1>1, SameOperators DEF Program!Prescribed, IsEmpty
  <1>5. Program!Restart
    BY <1>1, <1>2, <1>3, <1>4, SameOperators DEF Program!Restart
  <1>6. QED
    BY <1>5 DEF Program!Next

LEMMA ControllerElapseImplements ==
  ASSUME ControllerInv, ControllerElapse
  PROVE  Program!Next \/ UNCHANGED Program!vars
  <1>1. UNCHANGED <<currentSchedule, nextSchedule, scheduleIndex, gateOpen>>
    BY DEF ControllerElapse
  <1>2. CurrentIndex' = CurrentIndex
    BY <1>1 DEF CurrentIndex
  <1>3. CASE untilTick = Never
    <2>1. UNCHANGED sinceLastChange
      BY <1>3 DEF ControllerElapse
    <2>2. Position' = Position
      BY <1>1, <1>2, <2>1 DEF Position
    <2>3. QED
      BY <1>1, <2>2 DEF Program!vars
  <1>4. CASE untilTick # Never
    <2> DEFINE s == currentSchedule
               i == CurrentIndex
    <2>1. sinceLastChange' = sinceLastChange + 1
      BY <1>4 DEF ControllerElapse
    <2>2. untilTick \in Nat /\ untilTick # 0
      BY <1>4 DEF ControllerInv, ControllerElapse, ControllerQuiet
    <2>3. ~IsEmpty(s) /\ s \in Schedule
      BY <1>4, <2>2 DEF ControllerInv, IdleInv
    <2>4. /\ i \in 0 .. Len(s) - 1
          /\ Position = StartOf(s, i) + sinceLastChange
          /\ StartOf(s, i + 1) = Position + untilTick
          /\ Position \in Nat /\ StartOf(s, i) \in Nat
          /\ sinceLastChange \in Nat
      BY <2>3, PositionInEntry DEF ControllerInv
    <2>5. StartOf(s, i) <= Position /\ Position < StartOf(s, i + 1)
      BY <2>2, <2>4
    <2>6. Position < CycleLength(s) /\ Program!Prescribed(s, Position) = Object(s, i)
      BY <2>3, <2>4, <2>5, PrescribedInEntry
    <2>7. gateOpen = Object(s, i)
      BY <2>3 DEF ControllerInv, EntryInv
    <2>8. Position' = Position + 1
      <3>1. Position' = StartOf(s, i) + (sinceLastChange + 1)
        BY <1>1, <1>2, <2>1, <2>3 DEF Position
      <3>2. QED
        BY <2>4, <3>1
    <2>9. Program!Pass
      BY <1>1, <2>6, <2>7, <2>8, SameOperators DEF Program!Pass, Program!InForce
    <2>10. QED
      BY <2>9 DEF Program!Next
  <1>5. QED
    BY <1>3, <1>4

LEMMA LoadScheduleImplements ==
  ASSUME ControllerInv, NEW s \in Schedule, LoadSchedule(s)
  PROVE  Program!Next
  <1>1. nextSchedule' \in Schedule
        /\ UNCHANGED <<currentSchedule, scheduleIndex, sinceLastChange, gateOpen>>
    BY DEF LoadSchedule
  <1>2. Position' = Position
    BY <1>1 DEF Position, CurrentIndex
  <1>3. Program!Request
    BY <1>1, <1>2, SameOperators DEF Program!Request
  <1>4. QED
    BY <1>3 DEF Program!Next

LEMMA HoldRequestImplements ==
  ASSUME HoldRequest
  PROVE  UNCHANGED Program!vars
  BY DEF HoldRequest, Program!vars, Position, CurrentIndex

\* Schedules without entries are not loaded under length-aware scheduling.
NextFits == LengthAware => nextSchedule # <<>>

\* The gates follow the schedule: time never passes under gates other than those
\* of the moment in the cycle, and schedules change only between two cycles, for
\* any schedules, however often and whenever others are loaded
\* (GateController.cc:95).
THEOREM ControllerRunsItsProgram ==
  ASSUME NoEmptyIfLengthAware
  PROVE  ControllerSpec => RunsItsProgram
  <1>1. ControllerInit => Program!Init
    <2> SUFFICES ASSUME ControllerInit PROVE Program!Init
      OBVIOUS
    <2>1. nextSchedule \in Schedule /\ gateOpen \in SUBSET Gate /\ currentSchedule = <<>>
      BY SchedulesAssumption DEF ControllerInit
    <2>2. Position = 0
      BY <2>1 DEF Position, IsEmpty
    <2>3. QED
      BY <2>1, <2>2, SameOperators DEF Program!Init
  <1>2. ControllerInit => NextFits
    BY NoEmptyIfLengthAware DEF ControllerInit, NextFits, NoEmptyIfLengthAware
  <1>3. NextFits /\ [ControllerNext]_controllerVars => NextFits'
    <2> SUFFICES ASSUME NextFits, [ControllerNext]_controllerVars PROVE NextFits'
      OBVIOUS
    <2>1. NoSchedule # <<>>
      BY NoScheduleAssumption, EmptySeq DEF Schedule
    <2>2. CASE Tick
      BY <2>1, <2>2 DEF Tick, TickEntry, TickEmptySchedule, TickNextSchedule, NextFits
    <2>3. CASE \E s \in SwapSchedules : LoadSchedule(s)
      BY <2>3, NoEmptyIfLengthAware DEF LoadSchedule, NextFits, NoEmptyIfLengthAware
    <2>4. CASE UNCHANGED nextSchedule
      BY <2>4 DEF NextFits
    <2>5. HoldRequest \/ ControllerElapse \/ UNCHANGED controllerVars
            => UNCHANGED nextSchedule
      BY DEF HoldRequest, ControllerElapse, controllerVars
    <2>6. QED
      BY <2>2, <2>3, <2>4, <2>5 DEF ControllerNext
  <1>4. ControllerInv /\ NextFits /\ [ControllerNext]_controllerVars
          => [Program!Next]_Program!vars
    <2> SUFFICES ASSUME ControllerInv, NextFits, [ControllerNext]_controllerVars
                 PROVE  Program!Next \/ UNCHANGED Program!vars
      OBVIOUS
    <2>1. CASE TickEntry
      BY <2>1, TickEntryImplements
    <2>2. CASE TickEmptySchedule
      <3>1. ~LengthAware
        BY <2>2 DEF NextFits, TickEmptySchedule, IsEmpty
      <3>2. QED
        BY <2>2, <3>1, TickEmptyScheduleImplements
    <2>3. CASE HoldRequest
      BY <2>3, HoldRequestImplements
    <2>4. CASE ControllerElapse
      BY <2>4, ControllerElapseImplements
    <2>5. CASE \E s \in SwapSchedules : LoadSchedule(s)
      BY <2>5, LoadScheduleImplements, SchedulesAssumption
    <2>6. CASE UNCHANGED controllerVars
      BY <2>6 DEF controllerVars, Program!vars, Position, CurrentIndex
    <2>7. QED
      BY <2>1, <2>2, <2>3, <2>4, <2>5, <2>6 DEF ControllerNext, Tick
  <1>5. QED
    BY <1>1, <1>2, <1>3, <1>4, ControllerIsConsistent, PTL
       DEF ControllerSpec, RunsItsProgram, Program!Spec

-----------------------------------------------------------------------------
(* The lookahead *)

LEMMA Ascending ==
  ASSUME NEW m \in Nat, NEW f \in [0 .. m -> Int], \A k \in 1 .. m : f[k - 1] < f[k]
  PROVE  \A i, j \in 0 .. m : i <= j => f[i] + (j - i) <= f[j]
  <1> SUFFICES ASSUME NEW i \in 0 .. m
               PROVE  \A j \in 0 .. m : i <= j => f[i] + (j - i) <= f[j]
    OBVIOUS
  <1> DEFINE T == {j \in 0 .. m : i <= j => f[i] + (j - i) <= f[j]}
  <1>1. 0 \in T
    OBVIOUS
  <1>2. ASSUME NEW j \in 1 .. m, j - 1 \in T
        PROVE  j \in T
    <2>1. j \in 0 .. m /\ j - 1 \in 0 .. m /\ f[j - 1] < f[j] /\ i \in Int
          /\ f[j] \in Int /\ f[j - 1] \in Int /\ f[i] \in Int
      OBVIOUS
    <2>2. CASE i = j
      BY <2>1, <2>2
    <2>3. CASE i # j
      <3>1. i <= j => i <= j - 1
        BY <2>1, <2>3
      <3>2. i <= j - 1 => f[i] + ((j - 1) - i) <= f[j - 1]
        BY <1>2
      <3>3. i <= j => f[i] + (j - i) <= f[j]
        BY <2>1, <3>1, <3>2
      <3>4. QED
        BY <2>1, <3>3
    <2>4. QED
      BY <2>2, <2>3
  <1>3. T = 0 .. m
    <2>1. T \in SUBSET (0 .. m)
      OBVIOUS
    <2> HIDE DEF T
    <2>2. QED
      BY <1>1, <1>2, <2>1, Induction
  <1>4. QED
    BY <1>3

\* The loop sums up whole entries, the window counts units: reach, the end of an
\* entry, is late by what the loop has not taken off.
IsLookahead(M, bits, reach, delta) ==
  /\ bits \in [0 .. M -> Int]
  /\ reach \in [0 .. M -> Int]
  /\ bits[0] = 0 /\ 0 < reach[0]
  /\ \A k \in 1 .. M : /\ bits[k - 1] < bits[k]
                       /\ reach[k - 1] < reach[k]
                       /\ reach[k - 1] = bits[k] - delta

\* Where the loop stops, O being the entries that open the gate.
IsStop(M, O, bits, stop) ==
  /\ stop \in 0 .. M
  /\ bits[stop] >= M \/ stop \notin O
  /\ \A k \in 0 .. stop - 1 : bits[k] < M /\ k \in O

\* The entry of every unit.
IsEntryAt(M, reach, at) ==
  /\ at \in [0 .. M - 1 -> 0 .. M]
  /\ \A d \in 0 .. M - 1 : /\ d < reach[at[d]]
                           /\ \A k \in 0 .. at[d] - 1 : reach[k] <= d

LEMMA LookaheadFacts ==
  ASSUME NEW M \in Nat \ {0}, NEW delta \in Nat, NEW bits, NEW reach,
         IsLookahead(M, bits, reach, delta)
  PROVE  /\ \A k \in 0 .. M : bits[k] \in Int /\ reach[k] \in Int
         /\ \A k \in 0 .. M : bits[k] >= k /\ reach[k] >= k + 1
         /\ \A i, j \in 0 .. M : i <= j => reach[i] <= reach[j]
         /\ bits[0] = 0
         /\ \A k \in 1 .. M : reach[k - 1] = bits[k] - delta
  <1>1. bits \in [0 .. M -> Int] /\ reach \in [0 .. M -> Int] /\ bits[0] = 0 /\ 0 < reach[0]
    BY DEF IsLookahead
  <1>2. \A k \in 1 .. M : bits[k - 1] < bits[k] /\ reach[k - 1] < reach[k]
    BY DEF IsLookahead
  <1>3. \A k \in 0 .. M : bits[k] \in Int /\ reach[k] \in Int
    BY <1>1
  <1>4. /\ \A i, j \in 0 .. M : i <= j => bits[i] + (j - i) <= bits[j]
        /\ \A i, j \in 0 .. M : i <= j => reach[i] + (j - i) <= reach[j]
    BY <1>1, <1>2, Ascending
  <1>5. \A k \in 0 .. M : bits[k] >= k /\ reach[k] >= k + 1
    <2>1. TAKE k \in 0 .. M
    <2>2. 0 \in 0 .. M /\ 0 <= k
      OBVIOUS
    <2>3. bits[0] + (k - 0) <= bits[k] /\ reach[0] + (k - 0) <= reach[k]
      BY <1>4, <2>2
    <2>4. bits[k] \in Int /\ reach[k] \in Int /\ reach[0] \in Int
      BY <1>3, <2>2
    <2>5. QED
      BY <1>1, <2>3, <2>4
  <1>6. \A i, j \in 0 .. M : i <= j => reach[i] <= reach[j]
    <2>1. TAKE i, j \in 0 .. M
    <2>2. HAVE i <= j
    <2>3. reach[i] + (j - i) <= reach[j] /\ reach[i] \in Int /\ reach[j] \in Int
      BY <1>3, <1>4, <2>2
    <2>4. QED
      BY <2>2, <2>3
  <1>7. \A k \in 1 .. M : reach[k - 1] = bits[k] - delta
    BY DEF IsLookahead
  <1>8. QED
    BY <1>1, <1>3, <1>5, <1>6, <1>7

\* The entry of a unit is the one whose end comes first behind it.
LEMMA EntryOfUnit ==
  ASSUME NEW M \in Nat \ {0}, NEW delta \in Nat, NEW bits, NEW reach,
         IsLookahead(M, bits, reach, delta), NEW at, IsEntryAt(M, reach, at),
         NEW d \in 0 .. M - 1, NEW n \in 0 .. M
  PROVE  /\ d < reach[n] => at[d] \in 0 .. n
         /\ n # 0 /\ reach[n - 1] <= d => at[d] \in n .. M
  <1>1. at[d] \in 0 .. M /\ d < reach[at[d]] /\ \A k \in 0 .. at[d] - 1 : reach[k] <= d
    BY DEF IsEntryAt
  <1>2. \A k \in 0 .. M : reach[k] \in Int
    BY LookaheadFacts
  <1>3. ASSUME d < reach[n] PROVE at[d] \in 0 .. n
    <2>1. reach[n] \in Int
      BY <1>2
    <2>2. ~(n \in 0 .. at[d] - 1)
      BY <1>1, <1>3, <2>1
    <2>3. QED
      BY <1>1, <2>2
  <1>4. ASSUME n # 0, reach[n - 1] <= d PROVE at[d] \in n .. M
    <2>1. n - 1 \in 0 .. M
      BY <1>4
    <2>2. ASSUME at[d] <= n - 1 PROVE FALSE
      <3>1. reach[at[d]] <= reach[n - 1]
        BY <1>1, <2>1, <2>2, LookaheadFacts
      <3>2. reach[at[d]] \in Int /\ reach[n - 1] \in Int
        BY <1>1, <1>2, <2>1
      <3>3. QED
        BY <1>1, <1>4, <3>1, <3>2
    <2>3. QED
      BY <1>1, <2>2
  <1>5. QED
    BY <1>3, <1>4

\* The units that come before the first one at which the gate is closed.
OpenUnits(M, O, at) == {d \in 0 .. M - 1 : \A e \in 0 .. d : at[e] \in O}

LEMMA LoopIsWindow ==
  ASSUME NEW M \in Nat \ {0}, NEW O, NEW delta \in Nat, NEW bits, NEW reach,
         IsLookahead(M, bits, reach, delta),
         NEW stop, IsStop(M, O, bits, stop), NEW at, IsEntryAt(M, reach, at)
  PROVE  (IF bits[stop] >= M THEN M ELSE bits[stop])
           - Cardinality(OpenUnits(M, O, at)) \in 0 .. delta
  <1> DEFINE W == {d \in 0 .. M - 1 : \A e \in 0 .. d : at[e] \in O}
             b == bits[stop]
  <1> SUFFICES (IF b >= M THEN M ELSE b) - Cardinality(W) \in 0 .. delta
    BY DEF OpenUnits
  <1>1. W \in SUBSET (0 .. M - 1)
    OBVIOUS
  <1>2. \A d \in 0 .. M - 1 : d \in W <=> \A e \in 0 .. d : at[e] \in O
    OBVIOUS
  <1> HIDE DEF W
  <1>3. IsFiniteSet(0 .. M - 1) /\ Cardinality(0 .. M - 1) = M
    <2>1. 0 \in Int /\ M - 1 \in Int /\ ~(0 > M - 1) /\ (M - 1) - 0 + 1 = M
      OBVIOUS
    <2>2. QED
      BY <2>1, FS_Interval
  <1>4. IsFiniteSet(W) /\ Cardinality(W) <= M
    BY <1>1, <1>3, FS_Subset
  <1>5. Cardinality(W) \in Nat
    BY <1>4, FS_CardinalityType
  <1>6. stop \in 0 .. M /\ (b >= M \/ stop \notin O)
        /\ \A k \in 0 .. stop - 1 : k \in O
    BY DEF IsStop
  <1>7. b \in Int /\ b >= stop /\ (stop = 0 => b = 0)
    BY <1>6, LookaheadFacts
  <1>8. stop # 0 => stop - 1 \in 0 .. M /\ reach[stop - 1] = b - delta
    BY <1>6, LookaheadFacts
  <1> HIDE DEF b
  \* Before the end of the entries that the loop has summed up the gate is open.
  <1>9. ASSUME NEW e \in 0 .. M - 1, stop # 0, e < b - delta
        PROVE  at[e] \in O
    <2>1. at[e] \in 0 .. stop - 1
      BY <1>8, <1>9, EntryOfUnit
    <2>2. QED
      BY <1>6, <2>1
  <1>10. CASE b >= M
    <2>1. stop # 0
      BY <1>7, <1>10
    <2>2. CASE M - delta <= 0
      BY <1>4, <1>5, <1>10, <2>2
    <2>3. CASE M - delta > 0
      <3>1. 0 .. (M - delta) - 1 \in SUBSET W
        <4>1. SUFFICES ASSUME NEW d \in 0 .. (M - delta) - 1
                       PROVE  d \in W
          OBVIOUS
        <4>2. d \in 0 .. M - 1
          OBVIOUS
        <4>3. \A e \in 0 .. d : e \in 0 .. M - 1 /\ e < b - delta
          BY <1>7, <1>10, <4>2
        <4>4. \A e \in 0 .. d : at[e] \in O
          BY <1>9, <2>1, <4>3
        <4>5. QED
          BY <1>2, <4>2, <4>4
      <3>2. Cardinality(0 .. (M - delta) - 1) = M - delta
        <4>1. 0 \in Int /\ (M - delta) - 1 \in Int /\ ~(0 > (M - delta) - 1)
              /\ ((M - delta) - 1) - 0 + 1 = M - delta
          BY <2>3
        <4>2. QED
          BY <4>1, FS_Interval
      <3>3. M - delta <= Cardinality(W)
        <4>1. Cardinality(0 .. (M - delta) - 1) <= Cardinality(W)
          BY <1>4, <3>1, FS_Subset
        <4>2. QED
          BY <3>2, <4>1
      <3>4. QED
        BY <1>4, <1>5, <1>10, <3>3
    <2>4. QED
      BY <2>2, <2>3
  <1>11. CASE b < M
    <2>1. stop \notin O /\ stop \in 0 .. M - 1
      BY <1>6, <1>7, <1>11
    <2>2. reach[stop] >= stop + 1 /\ reach[stop] \in Int
      BY <1>6, LookaheadFacts
    <2>3. CASE stop = 0
      <3>1. 0 \in 0 .. M - 1 /\ 0 < reach[0]
        BY <2>2, <2>3
      <3>2. at[0] \in 0 .. 0
        BY <1>6, <2>3, <3>1, EntryOfUnit
      <3>3. at[0] \notin O
        BY <2>1, <2>3, <3>2
      <3>4. W = {}
        <4>1. SUFFICES ASSUME NEW d \in W PROVE FALSE
          OBVIOUS
        <4>2. d \in 0 .. M - 1 /\ 0 \in 0 .. d
          BY <1>1
        <4>3. QED
          BY <1>2, <3>3, <4>2
      <3>5. Cardinality(W) = 0
        BY <3>4, FS_EmptySet
      <3>6. QED
        BY <1>7, <1>11, <2>3, <3>5
    <2>4. CASE stop # 0
      <3> DEFINE r == b - delta
      <3>1. r = reach[stop - 1] /\ r \in Int /\ r >= stop
        <4>1. stop - 1 \in 0 .. M /\ r = reach[stop - 1]
          BY <1>8, <2>4
        <4>2. reach[stop - 1] >= (stop - 1) + 1 /\ reach[stop - 1] \in Int
          BY <4>1, LookaheadFacts
        <4>3. QED
          BY <2>1, <4>1, <4>2
      <3>2. r \in 1 .. M - 1 /\ r < reach[stop]
        <4>1. r <= b /\ r >= 1
          BY <1>7, <2>1, <2>4, <3>1
        <4>2. reach[stop - 1] < reach[stop]
          BY <2>1, <2>4 DEF IsLookahead
        <4>3. QED
          BY <1>7, <1>11, <3>1, <4>1, <4>2
      <3> HIDE DEF r
      \* The gate is closed in the entry at which the loop stops.
      <3>3. at[r] = stop
        <4>1. r \in 0 .. M - 1 /\ reach[stop - 1] <= r
          BY <3>1, <3>2
        <4>2. at[r] \in 0 .. stop /\ at[r] \in stop .. M
          BY <1>6, <2>4, <3>2, <4>1, EntryOfUnit
        <4>3. QED
          BY <1>6, <4>2
      <3>4. ASSUME NEW d \in W PROVE d \in 0 .. r - 1
        <4>1. d \in 0 .. M - 1 /\ \A e \in 0 .. d : at[e] \in O
          BY <1>1, <1>2
        <4>2. ~(r \in 0 .. d)
          BY <2>1, <3>3, <4>1
        <4>3. QED
          BY <3>2, <4>1, <4>2
      <3>5. ASSUME NEW d \in 0 .. r - 1 PROVE d \in W
        <4>1. d \in 0 .. M - 1 /\ \A e \in 0 .. d : e \in 0 .. M - 1 /\ e < r
          BY <3>2
        <4>2. \A e \in 0 .. d : at[e] \in O
          BY <1>9, <2>4, <4>1 DEF r
        <4>3. QED
          BY <1>2, <4>1, <4>2
      <3>6. W = 0 .. r - 1
        BY <3>4, <3>5
      <3>7. Cardinality(0 .. r - 1) = r
        <4>1. 0 \in Int /\ r - 1 \in Int /\ ~(0 > r - 1) /\ (r - 1) - 0 + 1 = r
          BY <3>2
        <4>2. QED
          BY <4>1, FS_Interval
      <3>8. b - Cardinality(W) = delta
        BY <1>7, <3>1, <3>6, <3>7 DEF r
      <3>9. QED
        BY <1>7, <1>11, <3>8
    <2>5. QED
      BY <2>3, <2>4
  <1>12. QED
    BY <1>7, <1>10, <1>11

-----------------------------------------------------------------------------
(* calculateMaxBit *)

\* The sums that MaxBit and OpenAfter are made from.
LookaheadBits(current, next, i, since) ==
  LET entry(n) == LookaheadEntry(current, next, i, n)
      bits[n \in 0 .. MTU] ==
        IF n = 0 THEN 0
        ELSE bits[n - 1] + entry(n - 1).length * ClockRate
               - (IF n = 1 THEN since ELSE 0)
  IN  bits

LookaheadReach(current, next, i, since) ==
  LET entry(n) == LookaheadEntry(current, next, i, n)
      reach[n \in 0 .. MTU] ==
        IF n = 0 THEN entry(0).length * ClockRate - since
        ELSE reach[n - 1] + entry(n).length * ClockRate
  IN  reach

\* A schedule with entries, and one with entries or none behind it.
CanLookAhead(current, next, i) ==
  /\ current \in Schedule /\ current # <<>>
  /\ next \in Schedule \cup {NoSchedule} /\ next # <<>>
  /\ i \in 0 .. Len(current) - 1

\* The loop never reads past the end of a schedule.
LEMMA LookaheadEntries ==
  ASSUME NEW current, NEW next, NEW i, CanLookAhead(current, next, i), NEW n \in Nat
  PROVE  LookaheadEntry(current, next, i, n) \in Entry
  <1>1. /\ current \in Seq(Entry) /\ Len(current) \in Nat \ {0}
        /\ i \in Nat /\ i < Len(current)
    BY DEF CanLookAhead, Schedule
  <1>2. ASSUME NEW s \in Seq(Entry), Len(s) \in Nat \ {0}, NEW k \in Nat
        PROVE  s[(k % Len(s)) + 1] \in Entry
    <2>1. k % Len(s) \in 0 .. Len(s) - 1
      BY <1>2
    <2>2. (k % Len(s)) + 1 \in 1 .. Len(s)
      BY <1>2, <2>1
    <2>3. QED
      BY <2>2
  <1>3. CASE next = NoSchedule
    <2>1. i + n \in Nat
      BY <1>1
    <2>2. QED
      BY <1>1, <1>2, <1>3, <2>1 DEF LookaheadEntry
  <1>4. CASE next # NoSchedule /\ i + n < Len(current)
    <2>1. i + n + 1 \in 1 .. Len(current)
      BY <1>1, <1>4
    <2>2. QED
      BY <1>1, <1>4, <2>1 DEF LookaheadEntry
  <1>5. CASE next # NoSchedule /\ ~(i + n < Len(current))
    <2>1. next \in Seq(Entry) /\ Len(next) \in Nat \ {0}
      BY <1>5 DEF CanLookAhead, Schedule
    <2>2. i + n - Len(current) \in Nat
      BY <1>1, <1>5
    <2>3. QED
      BY <1>2, <1>5, <2>1, <2>2 DEF LookaheadEntry
  <1>6. QED
    BY <1>3, <1>4, <1>5

LEMMA LookaheadLengths ==
  ASSUME NEW current, NEW next, NEW i, CanLookAhead(current, next, i), NEW n \in Nat
  PROVE  LookaheadEntry(current, next, i, n).length * ClockRate \in Nat \ {0}
  <1>1. LookaheadEntry(current, next, i, n) \in Entry
    BY LookaheadEntries
  <1>2. LookaheadEntry(current, next, i, n).length \in Nat \ {0}
    BY <1>1 DEF Entry
  <1>3. \A l, r \in Nat \ {0} : l * r \in Nat \ {0}
    OBVIOUS
  <1>4. QED
    BY <1>2, <1>3, ClockRateAssumption

LEMMA BitsAreSums ==
  ASSUME NEW current, NEW next, NEW i, CanLookAhead(current, next, i), NEW since \in Nat
  PROVE  LET bits == LookaheadBits(current, next, i, since)
             long(n) == LookaheadEntry(current, next, i, n).length * ClockRate
         IN  /\ bits \in [0 .. MTU -> Int]
             /\ bits[0] = 0
             /\ \A n \in 1 .. MTU : bits[n] = bits[n - 1] + long(n - 1)
                                                - (IF n = 1 THEN since ELSE 0)
  <1> DEFINE entry(n) == LookaheadEntry(current, next, i, n)
             bits[n \in 0 .. MTU] ==
               IF n = 0 THEN 0
               ELSE bits[n - 1] + entry(n - 1).length * ClockRate
                      - (IF n = 1 THEN since ELSE 0)
             long(n) == LookaheadEntry(current, next, i, n).length * ClockRate
             d == [n \in 1 .. MTU |-> long(n - 1) - (IF n = 1 THEN since ELSE 0)]
  <1>1. \A n \in 1 .. MTU : long(n - 1) \in Nat
    BY MTUAssumption, LookaheadLengths
  <1> HIDE DEF long
  <1>2. d \in [1 .. MTU -> Int]
    BY <1>1
  <1>3. PICK f \in [0 .. MTU -> Int] :
          f = [n \in 0 .. MTU |-> IF n = 0 THEN 0 ELSE f[n - 1] + d[n]]
    <2> HIDE DEF d
    <2>1. 0 \in Int /\ MTU \in Nat
      BY MTUAssumption
    <2>2. PICK f : AreSums(f, MTU, 0, d)
      BY <1>2, <2>1, SumExists
    <2>3. QED
      BY <2>2 DEF AreSums
  <1>4. ASSUME NEW g \in [0 .. MTU -> Int], NEW n \in 0 .. MTU, n # 0
        PROVE  g[n - 1] + d[n] = g[n - 1] + long(n - 1) - (IF n = 1 THEN since ELSE 0)
    <2>1. n \in 1 .. MTU /\ n - 1 \in 0 .. MTU
      BY <1>4, MTUAssumption
    <2>2. g[n - 1] \in Int /\ long(n - 1) \in Nat
      BY <1>1, <2>1
    <2>3. QED
      BY <2>1, <2>2
  <1>5. f = [n \in 0 .. MTU |-> IF n = 0 THEN 0
                                ELSE f[n - 1] + long(n - 1) - (IF n = 1 THEN since ELSE 0)]
    <2> HIDE DEF d
    <2>1. QED
      BY <1>3, <1>4
  <1>6. bits = [n \in 0 .. MTU |-> IF n = 0 THEN 0
                                   ELSE bits[n - 1] + entry(n - 1).length * ClockRate
                                          - (IF n = 1 THEN since ELSE 0)]
    BY <1>5 DEF long
  <1>7. LookaheadBits(current, next, i, since) = bits
    BY DEF LookaheadBits
  <1> HIDE DEF bits, d
  <1>8. \A n \in 0 .. MTU : bits[n] = IF n = 0 THEN 0
                                       ELSE bits[n - 1] + long(n - 1)
                                              - (IF n = 1 THEN since ELSE 0)
    BY <1>6 DEF long
  <1>9. bits[0] = 0
    BY <1>8, MTUAssumption
  <1>10. \A n \in 1 .. MTU : bits[n] = bits[n - 1] + long(n - 1)
                                         - (IF n = 1 THEN since ELSE 0)
    <2>1. \A n \in 1 .. MTU : n \in 0 .. MTU /\ n # 0
      BY MTUAssumption
    <2>2. QED
      BY <1>8, <2>1
  <1>11. \A n \in 0 .. MTU : bits[n] \in Int
    <2> DEFINE T == {n \in 0 .. MTU : bits[n] \in Int}
    <2>1. 0 \in T
      BY <1>9, MTUAssumption
    <2>2. \A n \in 1 .. MTU : n - 1 \in T => n \in T
      <3>1. \A n \in 1 .. MTU : n \in 0 .. MTU /\ n - 1 \in 0 .. MTU
        BY MTUAssumption
      <3>2. QED
        BY <1>1, <1>10, <3>1
    <2>3. T \in SUBSET (0 .. MTU)
      OBVIOUS
    <2>4. T = 0 .. MTU
      <3> HIDE DEF T
      <3>1. QED
        BY <2>1, <2>2, <2>3, MTUAssumption, Induction
    <2>5. QED
      BY <2>4
  <1>12. bits \in [0 .. MTU -> Int]
    BY <1>6, <1>11
  <1>13. QED
    BY <1>7, <1>9, <1>10, <1>12 DEF long

LEMMA ReachIsSums ==
  ASSUME NEW current, NEW next, NEW i, CanLookAhead(current, next, i), NEW since \in Nat
  PROVE  LET reach == LookaheadReach(current, next, i, since)
             long(n) == LookaheadEntry(current, next, i, n).length * ClockRate
         IN  /\ reach \in [0 .. MTU -> Int]
             /\ reach[0] = long(0) - since
             /\ \A n \in 1 .. MTU : reach[n] = reach[n - 1] + long(n)
  <1> DEFINE entry(n) == LookaheadEntry(current, next, i, n)
             reach[n \in 0 .. MTU] ==
               IF n = 0 THEN entry(0).length * ClockRate - since
               ELSE reach[n - 1] + entry(n).length * ClockRate
             long(n) == LookaheadEntry(current, next, i, n).length * ClockRate
             a == long(0) - since
             d == [n \in 1 .. MTU |-> long(n)]
  <1>1. \A n \in 0 .. MTU : long(n) \in Nat
    BY MTUAssumption, LookaheadLengths
  <1> HIDE DEF long
  <1>2. d \in [1 .. MTU -> Int] /\ a \in Int
    BY <1>1, MTUAssumption
  <1>3. PICK f \in [0 .. MTU -> Int] :
          f = [n \in 0 .. MTU |-> IF n = 0 THEN a ELSE f[n - 1] + d[n]]
    <2> HIDE DEF d, a
    <2>1. MTU \in Nat
      BY MTUAssumption
    <2>2. PICK f : AreSums(f, MTU, a, d)
      BY <1>2, <2>1, SumExists
    <2>3. QED
      BY <2>2 DEF AreSums
  <1>4. \A n \in 0 .. MTU : n # 0 => d[n] = long(n)
    BY MTUAssumption
  <1>5. f = [n \in 0 .. MTU |-> IF n = 0 THEN long(0) - since ELSE f[n - 1] + long(n)]
    <2> HIDE DEF d
    <2>1. QED
      BY <1>3, <1>4
  <1>6. reach = [n \in 0 .. MTU |-> IF n = 0 THEN entry(0).length * ClockRate - since
                                    ELSE reach[n - 1] + entry(n).length * ClockRate]
    BY <1>5 DEF long
  <1>7. LookaheadReach(current, next, i, since) = reach
    BY DEF LookaheadReach
  <1> HIDE DEF reach, d
  <1>8. \A n \in 0 .. MTU : reach[n] = IF n = 0 THEN a ELSE reach[n - 1] + long(n)
    BY <1>6 DEF long
  <1>9. reach[0] = a
    BY <1>8, MTUAssumption
  <1>10. \A n \in 1 .. MTU : reach[n] = reach[n - 1] + long(n)
    <2>1. \A n \in 1 .. MTU : n \in 0 .. MTU /\ n # 0
      BY MTUAssumption
    <2>2. QED
      BY <1>8, <2>1
  <1>11. \A n \in 0 .. MTU : reach[n] \in Int
    <2> DEFINE T == {n \in 0 .. MTU : reach[n] \in Int}
    <2>1. 0 \in T
      BY <1>2, <1>9, MTUAssumption
    <2>2. \A n \in 1 .. MTU : n - 1 \in T => n \in T
      <3>1. \A n \in 1 .. MTU : n \in 0 .. MTU /\ n - 1 \in 0 .. MTU
        BY MTUAssumption
      <3>2. QED
        BY <1>1, <1>10, <3>1
    <2>3. T \in SUBSET (0 .. MTU)
      OBVIOUS
    <2>4. T = 0 .. MTU
      <3> HIDE DEF T
      <3>1. QED
        BY <2>1, <2>2, <2>3, MTUAssumption, Induction
    <2>5. QED
      BY <2>4
  <1>12. reach \in [0 .. MTU -> Int]
    BY <1>6, <1>11
  <1>13. QED
    BY <1>7, <1>9, <1>10, <1>12 DEF long

LEMMA SumsAreLookahead ==
  ASSUME NEW current, NEW next, NEW i, CanLookAhead(current, next, i),
         NEW since \in Nat, NEW passed \in Nat, since <= passed,
         passed < Duration(current, i)
  PROVE  IsLookahead(MTU, LookaheadBits(current, next, i, since),
                     LookaheadReach(current, next, i, passed), passed - since)
  <1> DEFINE bits == LookaheadBits(current, next, i, since)
             reach == LookaheadReach(current, next, i, passed)
             long(n) == LookaheadEntry(current, next, i, n).length * ClockRate
             delta == passed - since
             T == {k \in 1 .. MTU : reach[k - 1] = bits[k] - delta}
  <1>1. /\ bits \in [0 .. MTU -> Int] /\ bits[0] = 0
        /\ \A n \in 1 .. MTU : bits[n] = bits[n - 1] + long(n - 1)
                                           - (IF n = 1 THEN since ELSE 0)
    BY BitsAreSums
  <1>2. /\ reach \in [0 .. MTU -> Int] /\ reach[0] = long(0) - passed
        /\ \A n \in 1 .. MTU : reach[n] = reach[n - 1] + long(n)
    BY ReachIsSums
  <1>3. \A n \in 0 .. MTU : long(n) \in Nat \ {0}
    BY MTUAssumption, LookaheadLengths
  <1>4. long(0) = Duration(current, i)
    <2>1. current \in Schedule /\ Len(current) \in Nat /\ i \in Nat /\ i < Len(current)
      BY DEF CanLookAhead, Schedule
    <2>2. i + 0 = i /\ i % Len(current) = i
      BY <2>1
    <2>3. QED
      BY <2>1, <2>2 DEF LookaheadEntry, Duration
  <1>5. MTU \in Nat /\ MTU >= 1 /\ \A k \in 1 .. MTU : k \in 0 .. MTU /\ k - 1 \in 0 .. MTU
    BY MTUAssumption
  <1>6. long(0) \in Nat /\ since \in Nat /\ passed \in Nat /\ since <= passed /\ passed < long(0)
    BY <1>3, <1>4, <1>5
  <1> HIDE DEF bits, reach, long
  <1>7. 0 < reach[0]
    BY <1>2, <1>6
  <1>8. ASSUME NEW k \in 1 .. MTU PROVE bits[k - 1] < bits[k] /\ reach[k - 1] < reach[k]
    <2>1. /\ bits[k] = bits[k - 1] + long(k - 1) - (IF k = 1 THEN since ELSE 0)
          /\ reach[k] = reach[k - 1] + long(k)
          /\ bits[k] \in Int /\ bits[k - 1] \in Int /\ reach[k] \in Int /\ reach[k - 1] \in Int
          /\ long(k - 1) \in Nat \ {0} /\ long(k) \in Nat \ {0}
      BY <1>1, <1>2, <1>3, <1>5
    <2>2. k = 1 => long(k - 1) = long(0)
      OBVIOUS
    <2>3. QED
      BY <1>6, <2>1, <2>2
  <1>9. \A k \in 1 .. MTU : reach[k - 1] = bits[k] - delta
    <2> DEFINE U == {k \in 0 .. MTU : k # 0 => reach[k - 1] = bits[k] - delta}
    <2>1. 0 \in U
      BY <1>5
    <2>2. ASSUME NEW k \in 1 .. MTU, k - 1 \in U PROVE k \in U
      <3>1. /\ bits[k] = bits[k - 1] + long(k - 1) - (IF k = 1 THEN since ELSE 0)
            /\ bits[k - 1] \in Int /\ bits[k] \in Int /\ long(k - 1) \in Nat
            /\ k \in 0 .. MTU
        BY <1>1, <1>3, <1>5
      <3>2. CASE k = 1
        <4>1. bits[1] = bits[0] + long(0) - since
          BY <3>1, <3>2
        <4>2. reach[0] = bits[1] - delta
          BY <1>1, <1>2, <1>6, <4>1
        <4>3. QED
          BY <3>1, <3>2, <4>2
      <3>3. CASE k # 1
        <4>1. k - 1 \in 1 .. MTU /\ k - 1 # 0
          BY <1>5, <3>3
        <4>2. reach[k - 1] = reach[(k - 1) - 1] + long(k - 1) /\ reach[(k - 1) - 1] \in Int
          BY <1>2, <1>5, <4>1
        <4>3. reach[(k - 1) - 1] = bits[k - 1] - delta
          BY <2>2, <4>1
        <4>4. delta \in Int
          BY <1>6
        <4> HIDE DEF delta
        <4>5. reach[k - 1] = bits[k] - delta
          BY <3>1, <3>3, <4>2, <4>3, <4>4
        <4>6. QED
          BY <3>1, <4>5
      <3>4. QED
        BY <3>2, <3>3
    <2>3. U \in SUBSET (0 .. MTU)
      OBVIOUS
    <2>4. U = 0 .. MTU
      <3> HIDE DEF U
      <3>1. QED
        BY <1>5, <2>1, <2>2, <2>3, Induction
    <2>5. \A k \in 1 .. MTU : k \in U /\ k # 0
      BY <1>5, <2>4
    <2>6. QED
      BY <2>5
  <1>10. QED
    BY <1>1, <1>2, <1>7, <1>8, <1>9 DEF IsLookahead, bits, reach

\* The first number with a property, which the model chooses.
LEMMA FirstIsChosen ==
  ASSUME NEW m \in Nat, NEW T \in SUBSET (0 .. m), T # {}
  PROVE  LET n == CHOOSE n \in 0 .. m : n \in T /\ \A k \in 0 .. n - 1 : k \notin T
         IN  n \in T /\ \A k \in 0 .. n - 1 : k \notin T
  <1>1. PICK n \in T : \A k \in T : n <= k
    <2>1. T \in SUBSET Nat
      OBVIOUS
    <2>2. QED
      BY <2>1, LeastElement
  <1>2. n \in 0 .. m /\ n \in T /\ \A k \in 0 .. n - 1 : k \notin T
    BY <1>1
  <1>3. QED
    BY <1>2

\* The entries ahead, by number, that open a gate.
OpenEntries(g, current, next, i) ==
  {n \in 0 .. MTU : g \in LookaheadEntry(current, next, i, n).open}

\* The loop stops at the first entry that closes the gate, or when the sum of
\* the entries before it has reached the MTU.
LEMMA MaxBitStops ==
  ASSUME NEW g \in Gate, NEW current, NEW next, NEW i, CanLookAhead(current, next, i),
         NEW since \in Nat, since < Duration(current, i)
  PROVE  \E stop :
           /\ IsStop(MTU, OpenEntries(g, current, next, i),
                     LookaheadBits(current, next, i, since), stop)
           /\ MaxBit(g, current, next, i, since) =
                IF LookaheadBits(current, next, i, since)[stop] >= MTU
                  THEN MTU ELSE LookaheadBits(current, next, i, since)[stop]
  <1> DEFINE bits == LookaheadBits(current, next, i, since)
             entry(n) == LookaheadEntry(current, next, i, n)
             O == {n \in 0 .. MTU : g \in entry(n).open}
             S == {n \in 0 .. MTU : bits[n] >= MTU \/ g \notin entry(n).open}
             stop == CHOOSE n \in 0 .. MTU : /\ bits[n] >= MTU \/ g \notin entry(n).open
                                             /\ \A m \in 0 .. n - 1 :
                                                  ~(bits[m] >= MTU \/ g \notin entry(m).open)
  <1>1. IsLookahead(MTU, bits, LookaheadReach(current, next, i, since), since - since)
    BY SumsAreLookahead
  <1>2. since - since \in Nat /\ MTU \in Nat /\ MTU \in Nat \ {0}
    BY MTUAssumption
  <1>3. MaxBit(g, current, next, i, since) = IF bits[stop] >= MTU THEN MTU ELSE bits[stop]
    BY DEF MaxBit, LookaheadBits
  <1>4. OpenEntries(g, current, next, i) = O
    BY DEF OpenEntries
  <1> HIDE DEF bits, entry
  <1>5. \A k \in 0 .. MTU : bits[k] \in Int /\ bits[k] >= k
    BY <1>1, <1>2, LookaheadFacts
  <1>6. IsStop(MTU, O, bits, stop)
    <2>1. MTU \in S
      BY <1>2, <1>5
    <2>2. S \in SUBSET (0 .. MTU)
      OBVIOUS
    <2>3. stop = CHOOSE n \in 0 .. MTU : n \in S /\ \A m \in 0 .. n - 1 : m \notin S
      <3> DEFINE P(n) == /\ bits[n] >= MTU \/ g \notin entry(n).open
                         /\ \A m \in 0 .. n - 1 : ~(bits[m] >= MTU \/ g \notin entry(m).open)
                 Q(n) == n \in S /\ \A m \in 0 .. n - 1 : m \notin S
      <3>1. ASSUME NEW n \in 0 .. MTU PROVE P(n) <=> Q(n)
        <4>1. \A m \in 0 .. n - 1 : m \in 0 .. MTU
          BY <1>2
        <4>2. QED
          BY <4>1
      <3>2. stop = CHOOSE n \in 0 .. MTU : P(n)
        OBVIOUS
      <3> HIDE DEF P, Q, stop
      <3>3. (CHOOSE n \in 0 .. MTU : P(n)) = CHOOSE n \in 0 .. MTU : Q(n)
        BY <3>1
      <3>4. QED
        BY <3>2, <3>3 DEF Q
    <2> HIDE DEF stop, S
    <2>4. stop \in S /\ \A k \in 0 .. stop - 1 : k \notin S
      BY <1>2, <2>1, <2>2, <2>3, FirstIsChosen
    <2>5. stop \in 0 .. MTU /\ \A k \in 0 .. stop - 1 : k \in 0 .. MTU
      BY <1>2, <2>2, <2>4
    <2>6. \A k \in 0 .. MTU : k \in S <=> (bits[k] >= MTU \/ k \notin O)
      BY DEF S
    <2> HIDE DEF O
    <2>7. QED
      BY <1>2, <1>5, <2>4, <2>5, <2>6 DEF IsStop
  <1> HIDE DEF stop, O
  <1>7. QED
    BY <1>3, <1>4, <1>6 DEF bits

\* What calculateMaxBit returns is the window that is left, and what has passed
\* since the last clock tick.
LEMMA LookaheadIsWindowLeft ==
  ASSUME NEW g \in Gate, NEW current, NEW next, NEW i, CanLookAhead(current, next, i),
         NEW since \in Nat, NEW passed \in Nat, since <= passed,
         passed < Duration(current, i)
  PROVE  MaxBit(g, current, next, i, since) - WindowLeft(g, current, next, i, passed)
           \in 0 .. passed - since
  <1> DEFINE bits == LookaheadBits(current, next, i, since)
             reach == LookaheadReach(current, next, i, passed)
             entry(n) == LookaheadEntry(current, next, i, n)
             O == OpenEntries(g, current, next, i)
             atOf(d) == CHOOSE n \in 0 .. MTU : /\ d < reach[n]
                                                /\ \A m \in 0 .. n - 1 : reach[m] <= d
             at == [d \in 0 .. MTU - 1 |-> atOf(d)]
             delta == passed - since
  <1>1. IsLookahead(MTU, bits, reach, delta)
    BY SumsAreLookahead
  <1>2. delta \in Nat /\ MTU \in Nat /\ MTU \in Nat \ {0}
    BY MTUAssumption
  <1>3. PICK stop :
          /\ IsStop(MTU, O, bits, stop)
          /\ MaxBit(g, current, next, i, since) = IF bits[stop] >= MTU THEN MTU ELSE bits[stop]
    <2>1. since < Duration(current, i)
      <3>1. Duration(current, i) \in Nat
        BY Durations DEF CanLookAhead
      <3>2. QED
        BY <3>1
    <2>2. QED
      BY <2>1, MaxBitStops
  <1>4. \A d : OpenAfter(g, current, next, i, passed, d) <=> g \in entry(atOf(d)).open
    BY DEF OpenAfter, LookaheadReach
  <1> HIDE DEF bits, reach, entry, delta, O
  <1>5. /\ \A k \in 0 .. MTU : bits[k] \in Int /\ reach[k] \in Int
        /\ \A k \in 0 .. MTU : bits[k] >= k /\ reach[k] >= k + 1
    BY <1>1, <1>2, LookaheadFacts
  <1>6. \A n \in 0 .. MTU : n \in O <=> g \in entry(n).open
    BY DEF OpenEntries, entry, O
  <1>7. ASSUME NEW d \in 0 .. MTU - 1
        PROVE  /\ atOf(d) \in 0 .. MTU /\ d < reach[atOf(d)]
               /\ \A k \in 0 .. atOf(d) - 1 : reach[k] <= d
    <2> DEFINE A == {n \in 0 .. MTU : d < reach[n]}
               a == atOf(d)
    <2>1. MTU \in A
      BY <1>2, <1>5
    <2>2. A \in SUBSET (0 .. MTU)
      OBVIOUS
    <2>3. a = CHOOSE n \in 0 .. MTU : n \in A /\ \A m \in 0 .. n - 1 : m \notin A
      <3> DEFINE P(n) == d < reach[n] /\ \A m \in 0 .. n - 1 : reach[m] <= d
                 Q(n) == n \in A /\ \A m \in 0 .. n - 1 : m \notin A
      <3>1. ASSUME NEW n \in 0 .. MTU PROVE P(n) <=> Q(n)
        <4>1. \A m \in 0 .. n - 1 : m \in 0 .. MTU /\ reach[m] \in Int
          BY <1>2, <1>5
        <4>2. QED
          BY <4>1
      <3>2. a = CHOOSE n \in 0 .. MTU : P(n)
        OBVIOUS
      <3> HIDE DEF P, Q, a
      <3>3. (CHOOSE n \in 0 .. MTU : P(n)) = CHOOSE n \in 0 .. MTU : Q(n)
        BY <3>1
      <3>4. QED
        BY <3>2, <3>3 DEF Q
    <2> SUFFICES a \in 0 .. MTU /\ d < reach[a] /\ \A k \in 0 .. a - 1 : reach[k] <= d
      OBVIOUS
    <2> HIDE DEF a, A
    <2>4. a \in A /\ \A k \in 0 .. a - 1 : k \notin A
      BY <1>2, <2>1, <2>2, <2>3, FirstIsChosen
    <2>5. a \in 0 .. MTU /\ \A k \in 0 .. a - 1 : k \in 0 .. MTU
      BY <1>2, <2>2, <2>4
    <2>6. QED
      BY <1>2, <1>5, <2>4, <2>5 DEF A
  <1> HIDE DEF atOf
  <1>8. IsEntryAt(MTU, reach, at)
    BY <1>7 DEF IsEntryAt
  <1>9. WindowLeft(g, current, next, i, passed)
          = Cardinality(OpenUnits(MTU, O, at))
    <2>1. ASSUME NEW d \in 0 .. MTU - 1
          PROVE  (\A e \in 0 .. d : OpenAfter(g, current, next, i, passed, e))
                   <=> \A e \in 0 .. d : at[e] \in O
      <3>1. ASSUME NEW e \in 0 .. d
            PROVE  OpenAfter(g, current, next, i, passed, e) <=> at[e] \in O
        <4>1. e \in 0 .. MTU - 1
          BY <1>2
        <4>2. at[e] = atOf(e) /\ atOf(e) \in 0 .. MTU
          BY <1>7, <4>1
        <4>3. QED
          BY <1>4, <1>6, <4>2
      <3>2. QED
        BY <3>1
    <2>2. {d \in 0 .. MTU - 1 : \A e \in 0 .. d : OpenAfter(g, current, next, i, passed, e)}
            = {d \in 0 .. MTU - 1 : \A e \in 0 .. d : at[e] \in O}
      BY <2>1
    <2> HIDE DEF at
    <2>3. QED
      BY <2>2 DEF WindowLeft, OpenUnits
  <1> HIDE DEF at
  <1>10. (IF bits[stop] >= MTU THEN MTU ELSE bits[stop])
           - Cardinality(OpenUnits(MTU, O, at)) \in 0 .. delta
    BY <1>1, <1>2, <1>3, <1>8, LoopIsWindow
  <1>11. QED
    BY <1>3, <1>9, <1>10 DEF delta

\* A schedule without entries never waits behind one with entries.
WaitingHasEntries == currentSchedule # <<>> => nextSchedule # <<>>

\* Between two ticks calculateMaxBit answers with what is left of the gate's
\* window, too large by less than a clock tick, if no empty schedule is loaded
\* in the course of a run: the loop would read an entry that is not there.
THEOREM LookaheadIsTheWindow ==
  ASSUME <<>> \notin SwapSchedules
  PROVE  ControllerSpec => []MaxBitIsWindow
  <1>1. ControllerInit => WaitingHasEntries
    BY DEF ControllerInit, WaitingHasEntries
  <1>2. ControllerInv /\ WaitingHasEntries /\ [ControllerNext]_controllerVars
          => WaitingHasEntries'
    <2> SUFFICES ASSUME ControllerInv, WaitingHasEntries, [ControllerNext]_controllerVars
                 PROVE  WaitingHasEntries'
      OBVIOUS
    <2>1. CASE TickEntry
      <3>1. nextSchedule' = TickNextSchedule
        BY <2>1, TickEntryInv
      <3>2. CASE SwapsSchedule
        BY <3>1, <3>2, NoScheduleAssumption, EmptySeq
           DEF TickNextSchedule, WaitingHasEntries, Schedule
      <3>3. CASE ~SwapsSchedule
        <4>1. currentSchedule' = currentSchedule
          BY <2>1, <3>3 DEF TickEntry, TickSchedule
        <4>2. QED
          BY <3>1, <3>3, <4>1 DEF TickNextSchedule, WaitingHasEntries
      <3>4. QED
        BY <3>2, <3>3
    <2>2. CASE TickEmptySchedule
      BY <2>2 DEF TickEmptySchedule, IsEmpty, WaitingHasEntries
    <2>3. CASE HoldRequest
      BY <2>3 DEF HoldRequest, WaitingHasEntries
    <2>4. CASE ControllerElapse
      BY <2>4 DEF ControllerElapse, WaitingHasEntries
    <2>5. CASE \E s \in SwapSchedules : LoadSchedule(s)
      BY <2>5 DEF LoadSchedule, WaitingHasEntries
    <2>6. CASE UNCHANGED controllerVars
      BY <2>6 DEF controllerVars, WaitingHasEntries
    <2>7. QED
      BY <2>1, <2>2, <2>3, <2>4, <2>5, <2>6 DEF ControllerNext, Tick
  <1>3. ControllerInv /\ WaitingHasEntries => MaxBitIsWindow
    <2> SUFFICES ASSUME ControllerInv, WaitingHasEntries,
                        untilTick > 0, ~IsEmpty(currentSchedule), NEW g \in Gate
                 PROVE  CalculateMaxBit(g)
                          - WindowLeft(g, currentSchedule, nextSchedule,
                                       CurrentIndex, sinceLastChange)
                        \in 0 .. ClockRate - 1
      BY DEF MaxBitIsWindow
    <2>1. CurrentIndex \in 0 .. Len(currentSchedule) - 1
      BY PositionInEntry
    <2>2. CanLookAhead(currentSchedule, nextSchedule, CurrentIndex)
      BY <2>1 DEF CanLookAhead, ControllerInv, WaitingHasEntries, IsEmpty
    <2>3. /\ sinceLastChange \in Nat /\ untilTick \in Nat
          /\ sinceLastChange + untilTick = Duration(currentSchedule, CurrentIndex)
      BY DEF ControllerInv, EntryInv
    <2>4. sinceLastChange < Duration(currentSchedule, CurrentIndex)
      BY <2>3
    <2> DEFINE since == ClockTimeSinceLastChange
               passed == sinceLastChange
               spare == passed - since
    <2>5. since \in Nat /\ since <= passed /\ spare \in Nat /\ spare <= ClockRate - 1
      <3>1. \A n \in Nat, r \in Nat \ {0} :
               (n \div r) * r \in Nat /\ (n \div r) * r <= n /\ n - (n \div r) * r <= r - 1
        OBVIOUS
      <3>2. /\ since \in Nat /\ since <= passed
            /\ passed - since <= ClockRate - 1
        BY <2>3, <3>1, ClockRateAssumption DEF ClockTimeSinceLastChange
      <3> HIDE DEF since
      <3>3. QED
        BY <2>3, <3>2
    <2> HIDE DEF since
    <2>6. MaxBit(g, currentSchedule, nextSchedule, CurrentIndex, since)
            - WindowLeft(g, currentSchedule, nextSchedule, CurrentIndex, passed)
          \in 0 .. spare
      BY <2>2, <2>3, <2>4, <2>5, LookaheadIsWindowLeft
    <2>7. 0 .. spare \subseteq 0 .. ClockRate - 1
      BY <2>5, ClockRateAssumption
    <2> HIDE DEF spare, passed
    <2>8. QED
      BY <2>6, <2>7 DEF CalculateMaxBit, since, passed
  <1>4. QED
    BY <1>1, <1>2, <1>3, ControllerIsConsistent, PTL DEF ControllerSpec

-----------------------------------------------------------------------------
(* The holds *)

\* The schedules known at the last tick put an express window next.
ExpressFollows ==
  FollowingObject(currentSchedule, foreseen, CurrentIndex) \cap Express # {}

\* What waited at the last tick may have been replaced, but not withdrawn.  It
\* has a first entry to decide a hold from.
ForeseenInv ==
  /\ foreseen # NoSchedule => nextSchedule # NoSchedule
  /\ Preemption => foreseen # <<>>

\* The first schedule may be empty; no hold has been decided when it is loaded.
NoHoldsInv ==
  /\ ~Preemption \/ IsEmpty(currentSchedule) => ~onHold /\ holdRequests = {}
  /\ Preemption /\ nextSchedule = <<>> => IsEmpty(currentSchedule)

\* A scheduled request is due one hold advance before the tick that opens the
\* express window it is for.
RequestInv ==
  \A t \in holdRequests :
    /\ t \in Nat
    /\ untilTick = t + HoldAdvance
    /\ ExpressFollows

\* The hold for the next express window is in force or still scheduled.
AdvanceInv ==
  (Preemption /\ ~failed /\ ~IsEmpty(currentSchedule) /\ ExpressFollows) =>
    onHold \/ untilTick - HoldAdvance \in holdRequests

HoldsInv ==
  /\ ForeseenInv
  /\ NoHoldsInv
  /\ RequestInv
  /\ AdvanceInv
  /\ HoldOnlyForExpressWindow

\* tick reads the first entry of a waiting schedule without asking whether it
\* has one (GateController.cc:175), so under hold and release no empty schedule
\* may be loaded later.
NoEmptyUnderHold == Preemption => <<>> \notin SwapSchedules

LEMMA HoldsInitInv ==
  ASSUME HoldsInit
  PROVE  HoldsInv
  <1>1. /\ currentSchedule = <<>> /\ holdRequests = {} /\ foreseen = NoSchedule
        /\ ~onHold
    BY DEF HoldsInit, ControllerInit, HoldsFirstEntry, IsEmpty
  <1>2. foreseen # <<>>
    BY <1>1, NoScheduleAssumption, EmptySeq DEF Schedule
  <1>3. QED
    BY <1>1, <1>2
    DEF HoldsInv, ForeseenInv, NoHoldsInv, RequestInv, AdvanceInv,
        HoldOnlyForExpressWindow, IsEmpty

\* A request precedes the tick: the advance has passed when the tick comes.
LEMMA NoRequestAtTick ==
  ASSUME HoldAdvance > 0, RequestInv, untilTick = 0
  PROVE  holdRequests = {}
  BY HoldAdvanceAssumption DEF RequestInv

\* The schedule in force and the one that waits keep their first entries.
LEMMA TickEntryForesees ==
  ASSUME ControllerInv, HoldsInv, TickEntry, foreseen' = TickNextSchedule
  PROVE  ForeseenInv' /\ (Preemption => nextSchedule' # <<>>)
  <1>1. nextSchedule' = TickNextSchedule
    BY TickEntryInv
  <1>2. NoSchedule # <<>>
    BY NoScheduleAssumption, EmptySeq DEF Schedule
  <1>3. ASSUME Preemption PROVE TickNextSchedule # <<>>
    <2>1. CASE SwapsSchedule
      BY <1>2, <2>1 DEF TickNextSchedule
    <2>2. CASE ~SwapsSchedule
      <3>1. SUFFICES ASSUME nextSchedule = <<>> PROVE FALSE
        BY <2>2 DEF TickNextSchedule
      <3>2. IsEmpty(currentSchedule)
        BY <1>3, <3>1 DEF HoldsInv, NoHoldsInv
      <3>3. scheduleIndex = 0
        BY <3>2 DEF ControllerInv, IdleInv
      <3>4. QED
        BY <1>2, <2>2, <3>1, <3>3 DEF SwapsSchedule
    <2>3. QED
      BY <2>1, <2>2
  <1>4. QED
    BY <1>1, <1>3 DEF ForeseenInv

\* What a tick decides about holds, once no request is left.
LEMMA TickEntryHolds ==
  ASSUME HoldAdvance > 0, ControllerInv, HoldsInv,
         TickEntry, foreseen' = TickNextSchedule
  PROVE  /\ untilTick' \in Nat
         /\ onHold' = (IF Preemption /\ ExpressFollows' /\ untilTick' - HoldAdvance = 0
                         THEN TRUE
                         ELSE onHold /\ ~ReleaseNeeded(gateOpen'))
         /\ holdRequests' = (IF Preemption /\ ExpressFollows' /\ untilTick' - HoldAdvance > 0
                               THEN {untilTick' - HoldAdvance}
                               ELSE {})
         /\ failed' = (Preemption /\ ExpressFollows' /\ untilTick' - HoldAdvance < 0)
  <1> DEFINE s == TickSchedule
             next == TickNextSchedule
             holds == Preemption /\ FollowingObject(s, next, scheduleIndex) \cap Express # {}
             delay == HoldDelay(s, scheduleIndex)
  <1>1. /\ currentSchedule' = s /\ CurrentIndex' = scheduleIndex
        /\ s \in Schedule /\ ~IsEmpty(s) /\ scheduleIndex \in 0 .. Len(s) - 1
        /\ gateOpen' = Object(s, scheduleIndex)
    BY TickEntryInv
  <1>2. ExpressFollows' <=> FollowingObject(s, next, scheduleIndex) \cap Express # {}
    BY <1>1 DEF ExpressFollows
  <1>3. untilTick' = Duration(s, scheduleIndex) /\ untilTick' \in Nat
    BY <1>1, Durations DEF TickEntry
  <1>4. delay = untilTick' - HoldAdvance
    BY <1>3 DEF HoldDelay
  <1>5. holdRequests = {}
    BY NoRequestAtTick DEF HoldsInv, TickEntry
  <1>6. /\ onHold' = (IF holds /\ delay = 0 THEN TRUE
                      ELSE onHold /\ ~ReleaseNeeded(Object(s, scheduleIndex)))
        /\ holdRequests' = (IF holds /\ delay > 0 THEN holdRequests \cup {delay}
                            ELSE holdRequests)
        /\ failed' = (holds /\ delay < 0)
    BY DEF TickEntry
  <1> HIDE DEF s, next, delay
  <1>7. holds <=> Preemption /\ ExpressFollows'
    BY <1>2
  <1> HIDE DEF holds
  <1>8. QED
    BY <1>1, <1>3, <1>4, <1>5, <1>6, <1>7

LEMMA Difference ==
  ASSUME NEW x \in Nat, NEW h \in Nat
  PROVE  x - h \in Int /\ x = (x - h) + h
  OBVIOUS

LEMMA TickEntryHoldsInv ==
  ASSUME HoldAdvance > 0, ControllerInv, HoldsInv,
         TickEntry, foreseen' = TickNextSchedule
  PROVE  HoldsInv'
  <1> DEFINE holds == Preemption /\ ExpressFollows'
             delay == untilTick' - HoldAdvance
  <1> HIDE DEF holds, delay
  <1>1. /\ untilTick' \in Nat
        /\ onHold' = (IF holds /\ delay = 0 THEN TRUE
                      ELSE onHold /\ ~ReleaseNeeded(gateOpen'))
        /\ holdRequests' = (IF holds /\ delay > 0 THEN {delay} ELSE {})
        /\ failed' = (holds /\ delay < 0)
    BY TickEntryHolds DEF holds, delay
  <1>2. delay \in Int /\ untilTick' = delay + HoldAdvance /\ HoldAdvance \in Nat
    <2>1. untilTick' \in Nat
      BY <1>1
    <2>2. HoldAdvance \in Nat
      BY HoldAdvanceAssumption
    <2>3. untilTick' - HoldAdvance \in Int /\ untilTick' = (untilTick' - HoldAdvance) + HoldAdvance
      BY <2>1, <2>2, Difference
    <2>4. QED
      BY <2>2, <2>3 DEF delay
  <1>3. ~IsEmpty(currentSchedule')
    BY TickEntryInv
  <1>4. ~Preemption => ~onHold
    BY DEF HoldsInv, NoHoldsInv
  <1>5. NoHoldsInv'
    <2>1. ~Preemption => ~onHold' /\ holdRequests' = {}
      BY <1>1, <1>4 DEF holds
    <2>2. Preemption => nextSchedule' # <<>>
      BY TickEntryForesees
    <2>3. QED
      BY <1>3, <2>1, <2>2 DEF NoHoldsInv
  <1>6. RequestInv'
    <2>1. SUFFICES ASSUME NEW t \in holdRequests'
                   PROVE  t \in Nat /\ untilTick' = t + HoldAdvance /\ ExpressFollows'
      BY DEF RequestInv
    <2>2. t = delay /\ delay > 0 /\ ExpressFollows'
      BY <1>1, <2>1 DEF holds
    <2>3. QED
      BY <1>2, <2>2
  <1>7. AdvanceInv'
    <2>1. SUFFICES ASSUME Preemption, ~failed', ExpressFollows'
                   PROVE  onHold' \/ delay \in holdRequests'
      BY DEF AdvanceInv, delay
    <2>2. holds /\ ~(delay < 0)
      BY <1>1, <2>1 DEF holds
    <2>3. CASE delay = 0
      BY <1>1, <2>2, <2>3
    <2>4. CASE delay > 0
      BY <1>1, <2>2, <2>4
    <2>5. QED
      BY <1>2, <2>2, <2>3, <2>4
  <1>8. HoldOnlyForExpressWindow'
    <2>1. SUFFICES ASSUME onHold', gateOpen' \cap Express = {}
                   PROVE  untilTick' <= HoldAdvance /\ ExpressFollows'
      BY DEF HoldOnlyForExpressWindow, ExpressFollows
    <2>2. onHold => ReleaseNeeded(gateOpen')
      BY <1>4, <2>1 DEF ReleaseNeeded
    <2>3. holds /\ delay = 0
      BY <1>1, <2>1, <2>2
    <2>4. QED
      BY <1>2, <2>3 DEF holds
  <1>9. ForeseenInv'
    BY TickEntryForesees
  <1>10. QED
    BY <1>5, <1>6, <1>7, <1>8, <1>9 DEF HoldsInv

LEMMA TickEmptyScheduleHoldsInv ==
  ASSUME ControllerInv, HoldsInv, TickEmptySchedule, foreseen' = TickNextSchedule
  PROVE  HoldsInv'
  <1>1. /\ currentSchedule' = nextSchedule /\ nextSchedule = <<>>
        /\ nextSchedule' = NoSchedule /\ UNCHANGED <<onHold, holdRequests>>
        /\ foreseen' = NoSchedule
    BY DEF TickEmptySchedule, TickNextSchedule, IsEmpty
  <1>2. NoSchedule # <<>>
    BY NoScheduleAssumption, EmptySeq DEF Schedule
  <1>3. ~onHold /\ holdRequests = {}
    BY <1>1 DEF HoldsInv, NoHoldsInv
  <1>4. QED
    BY <1>1, <1>2, <1>3
    DEF HoldsInv, ForeseenInv, NoHoldsInv, RequestInv, AdvanceInv,
        HoldOnlyForExpressWindow, IsEmpty

LEMMA LoadScheduleHoldsInv ==
  ASSUME NoEmptyUnderHold, ControllerInv, HoldsInv,
         NEW s \in SwapSchedules, LoadSchedule(s), UNCHANGED foreseen
  PROVE  HoldsInv'
  <1>1. s # NoSchedule /\ (Preemption => s # <<>>)
    BY SchedulesAssumption, NoScheduleAssumption DEF NoEmptyUnderHold
  <1>2. /\ nextSchedule' = s
        /\ UNCHANGED <<currentSchedule, scheduleIndex, untilTick, gateOpen,
                       onHold, holdRequests, failed, foreseen>>
    BY DEF LoadSchedule
  <1>3. CurrentIndex' = CurrentIndex
    BY <1>2 DEF CurrentIndex
  <1>4. ExpressFollows' <=> ExpressFollows
    BY <1>2, <1>3 DEF ExpressFollows
  <1>5. ForeseenInv' /\ NoHoldsInv'
    BY <1>1, <1>2 DEF HoldsInv, ForeseenInv, NoHoldsInv, IsEmpty
  <1>6. RequestInv' /\ AdvanceInv'
    BY <1>2, <1>4 DEF HoldsInv, RequestInv, AdvanceInv
  <1>7. HoldOnlyForExpressWindow'
    BY <1>2, <1>3 DEF HoldsInv, HoldOnlyForExpressWindow
  <1>8. QED
    BY <1>5, <1>6, <1>7 DEF HoldsInv

LEMMA HoldRequestHoldsInv ==
  ASSUME ControllerInv, HoldsInv, HoldRequest, UNCHANGED foreseen
  PROVE  HoldsInv'
  <1>1. /\ 0 \in holdRequests /\ onHold' = TRUE /\ holdRequests' = holdRequests \ {0}
        /\ UNCHANGED <<currentSchedule, nextSchedule, scheduleIndex, untilTick,
                       gateOpen, failed, foreseen>>
    BY DEF HoldRequest
  <1>2. CurrentIndex' = CurrentIndex
    BY <1>1 DEF CurrentIndex
  <1>3. ExpressFollows' <=> ExpressFollows
    BY <1>1, <1>2 DEF ExpressFollows
  <1>4. Preemption /\ ~IsEmpty(currentSchedule)
    BY <1>1 DEF HoldsInv, NoHoldsInv
  <1>5. untilTick = HoldAdvance /\ ExpressFollows
    BY <1>1, HoldAdvanceAssumption DEF HoldsInv, RequestInv
  <1>6. ForeseenInv' /\ NoHoldsInv'
    BY <1>1, <1>4 DEF HoldsInv, ForeseenInv, NoHoldsInv, IsEmpty
  <1>7. RequestInv' /\ AdvanceInv'
    BY <1>1, <1>3 DEF HoldsInv, RequestInv, AdvanceInv
  <1>8. HoldOnlyForExpressWindow'
    BY <1>1, <1>3, <1>5, HoldAdvanceAssumption DEF HoldOnlyForExpressWindow, ExpressFollows
  <1>9. QED
    BY <1>6, <1>7, <1>8 DEF HoldsInv

LEMMA ControllerElapseHoldsInv ==
  ASSUME ControllerInv, HoldsInv, ControllerElapse, UNCHANGED foreseen
  PROVE  HoldsInv'
  <1>1. /\ untilTick # 0 /\ 0 \notin holdRequests
        /\ holdRequests' = {t - 1 : t \in holdRequests}
        /\ UNCHANGED <<currentSchedule, nextSchedule, scheduleIndex, gateOpen,
                       onHold, failed, foreseen>>
    BY DEF ControllerElapse, ControllerQuiet
  <1>2. CurrentIndex' = CurrentIndex
    BY <1>1 DEF CurrentIndex
  <1>3. ExpressFollows' <=> ExpressFollows
    BY <1>1, <1>2 DEF ExpressFollows
  <1>4. ForeseenInv' /\ NoHoldsInv'
    BY <1>1 DEF HoldsInv, ForeseenInv, NoHoldsInv, IsEmpty
  <1>5. CASE IsEmpty(currentSchedule)
    <2>1. ~onHold' /\ holdRequests' = {} /\ IsEmpty(currentSchedule')
      BY <1>1, <1>5 DEF HoldsInv, NoHoldsInv, IsEmpty
    <2>2. QED
      BY <1>4, <2>1 DEF HoldsInv, RequestInv, AdvanceInv, HoldOnlyForExpressWindow
  <1>6. CASE ~IsEmpty(currentSchedule)
    <2>1. untilTick \in Nat /\ untilTick # Never
      BY <1>6, NeverIsNoTime DEF ControllerInv, EntryInv
    <2>2. untilTick' = untilTick - 1
      BY <2>1 DEF ControllerElapse
    <2>3. RequestInv'
      <3>1. SUFFICES ASSUME NEW u \in holdRequests'
                     PROVE  u \in Nat /\ untilTick' = u + HoldAdvance /\ ExpressFollows'
        BY DEF RequestInv
      <3>2. PICK t \in holdRequests : u = t - 1
        BY <1>1, <3>1
      <3>3. t \in Nat /\ t # 0 /\ untilTick = t + HoldAdvance /\ ExpressFollows
        BY <1>1, <3>2 DEF HoldsInv, RequestInv
      <3>4. QED
        BY <1>3, <2>1, <2>2, <3>2, <3>3, HoldAdvanceAssumption
    <2>4. AdvanceInv'
      <3>1. SUFFICES ASSUME Preemption, ~failed, ExpressFollows, ~onHold
                     PROVE  untilTick' - HoldAdvance \in holdRequests'
        BY <1>1, <1>3 DEF AdvanceInv
      <3>2. untilTick - HoldAdvance \in holdRequests
        BY <1>6, <3>1 DEF HoldsInv, AdvanceInv
      <3>3. (untilTick - HoldAdvance) - 1 \in holdRequests'
        BY <1>1, <3>2
      <3>4. untilTick' - HoldAdvance = (untilTick - HoldAdvance) - 1
        BY <2>1, <2>2, HoldAdvanceAssumption
      <3>5. QED
        BY <3>3, <3>4
    <2>5. HoldOnlyForExpressWindow'
      <3>1. SUFFICES ASSUME onHold, gateOpen \cap Express = {}
                     PROVE  untilTick' <= HoldAdvance /\ ExpressFollows'
        BY <1>1 DEF HoldOnlyForExpressWindow, ExpressFollows
      <3>2. untilTick <= HoldAdvance /\ ExpressFollows
        BY <3>1 DEF HoldsInv, HoldOnlyForExpressWindow, ExpressFollows
      <3>3. QED
        BY <1>3, <2>1, <2>2, <3>2, HoldAdvanceAssumption
    <2>6. QED
      BY <1>4, <2>3, <2>4, <2>5 DEF HoldsInv
  <1>7. QED
    BY <1>5, <1>6

LEMMA HoldsStep ==
  ASSUME HoldAdvance > 0, NoEmptyUnderHold,
         ControllerInv, HoldsInv, [HoldsNext]_holdsVars
  PROVE  HoldsInv'
  <1>1. CASE Tick /\ foreseen' = TickNextSchedule
    BY <1>1, TickEntryHoldsInv, TickEmptyScheduleHoldsInv DEF Tick
  <1>2. CASE HoldRequest /\ UNCHANGED foreseen
    BY <1>2, HoldRequestHoldsInv
  <1>3. CASE ControllerElapse /\ UNCHANGED foreseen
    BY <1>3, ControllerElapseHoldsInv
  <1>4. CASE (\E s \in SwapSchedules : LoadSchedule(s)) /\ UNCHANGED foreseen
    BY <1>4, LoadScheduleHoldsInv
  <1>5. CASE UNCHANGED holdsVars
    <2>1. UNCHANGED <<currentSchedule, nextSchedule, scheduleIndex, untilTick,
                      gateOpen, onHold, holdRequests, failed, foreseen>>
      BY <1>5 DEF holdsVars, controllerVars
    <2>2. CurrentIndex' = CurrentIndex
      BY <2>1 DEF CurrentIndex
    <2>3. QED
      BY <2>1, <2>2
      DEF HoldsInv, ForeseenInv, NoHoldsInv, RequestInv, AdvanceInv,
          HoldOnlyForExpressWindow, ExpressFollows, IsEmpty
  <1>6. QED
    BY <1>1, <1>2, <1>3, <1>4, <1>5 DEF HoldsNext

\* The history variable takes nothing away from the controller.
LEMMA HoldsSpecIsController == HoldsSpec => ControllerSpec
  <1>1. HoldsInit => ControllerInit
    BY DEF HoldsInit
  <1>2. [HoldsNext]_holdsVars => [ControllerNext]_controllerVars
    BY DEF HoldsNext, ControllerNext, holdsVars
  <1>3. QED
    BY <1>1, <1>2, PTL DEF HoldsSpec, ControllerSpec

\* The holds of GateController::tick fit the windows: each request is due one
\* hold advance before the tick it is for, and no hold for a window that was
\* foreseen is missing, whatever schedules are loaded and when.
THEOREM HoldsAreConsistent ==
  ASSUME HoldAdvance > 0, NoEmptyUnderHold
  PROVE  HoldsSpec => [](ControllerInv /\ HoldsInv)
  <1>1. HoldsSpec => []ControllerInv
    BY HoldsSpecIsController, ControllerIsConsistent, PTL
  <1>2. HoldsInit => HoldsInv
    BY HoldsInitInv
  <1>3. ControllerInv /\ HoldsInv /\ [HoldsNext]_holdsVars => HoldsInv'
    BY HoldsStep
  <1>4. QED
    BY <1>1, <1>2, <1>3, PTL DEF HoldsSpec

\* The MAC is held only while an express gate is open or during the hold advance
\* of the express window that the schedules known at the last tick put next
\* (the release and the hold of GateController::tick).
THEOREM HeldForExpressOnly ==
  ASSUME HoldAdvance > 0, NoEmptyUnderHold
  PROVE  HoldsSpec => []HoldOnlyForExpressWindow
  <1>1. HoldsInv => HoldOnlyForExpressWindow
    BY DEF HoldsInv
  <1>2. QED
    BY <1>1, HoldsAreConsistent, PTL

\* A tick opens the gates of the entry that the schedules known at the tick
\* before it put next, unless another schedule has come in between.
LEMMA OpensWhatFollows ==
  ASSUME ControllerInv, ForeseenInv, TickEntry, ~IsEmpty(currentSchedule),
         SwapsSchedule => nextSchedule = foreseen
  PROVE  gateOpen' = FollowingObject(currentSchedule, foreseen, CurrentIndex)
  <1> DEFINE n == Len(currentSchedule)
  <1>1. n \in Nat \ {0} /\ scheduleIndex \in 0 .. n - 1
    BY NonEmptySchedule DEF ControllerInv, EntryInv
  <1>2. CurrentIndex = IF scheduleIndex = 0 THEN n - 1 ELSE scheduleIndex - 1
    BY <1>1, Indices DEF CurrentIndex
  <1>3. CurrentIndex \in 0 .. n - 1
    BY <1>1, <1>2
  <1>4. (CurrentIndex + 1) % n = scheduleIndex
    <2>1. (CurrentIndex + 1) % n = IF CurrentIndex = n - 1 THEN 0 ELSE CurrentIndex + 1
      BY <1>1, <1>3, Indices
    <2>2. CASE scheduleIndex = 0
      BY <1>1, <1>2, <2>1, <2>2
    <2>3. CASE scheduleIndex # 0
      <3>1. CurrentIndex = scheduleIndex - 1 /\ CurrentIndex # n - 1
        BY <1>1, <1>2, <2>3
      <3>2. QED
        BY <1>1, <2>1, <3>1
    <2>4. QED
      BY <2>2, <2>3
  <1>5. gateOpen' = Object(TickSchedule, scheduleIndex)
    BY TickEntryInv
  <1>6. CASE SwapsSchedule
    <2>1. /\ scheduleIndex = 0 /\ foreseen # NoSchedule /\ TickSchedule = foreseen
      BY <1>6 DEF SwapsSchedule, TickSchedule
    <2>2. CurrentIndex = n - 1
      BY <1>2, <2>1
    <2>3. QED
      BY <1>5, <2>1, <2>2 DEF FollowingObject
  <1>7. CASE ~SwapsSchedule
    <2>1. ~(foreseen # NoSchedule /\ CurrentIndex = n - 1)
      <3>1. SUFFICES ASSUME foreseen # NoSchedule, CurrentIndex = n - 1
                     PROVE  FALSE
        OBVIOUS
      <3>2. scheduleIndex = 0
        BY <1>1, <1>2, <3>1
      <3>3. QED
        BY <1>7, <3>1, <3>2 DEF ForeseenInv, SwapsSchedule
    <2>2. FollowingObject(currentSchedule, foreseen, CurrentIndex) =
            Object(currentSchedule, scheduleIndex)
      BY <1>4, <2>1 DEF FollowingObject
    <2>3. QED
      BY <1>5, <1>7, <2>2 DEF TickSchedule
  <1>8. QED
    BY <1>6, <1>7

\* Under hold and release an express gate opens only on a MAC that is already
\* on hold, but for the first window of a run and that of a schedule loaded too
\* late (the hold of GateController::tick, one entry ahead).
THEOREM ExpressFindsHold ==
  ASSUME Preemption, HoldAdvance > 0, NoEmptyUnderHold
  PROVE  HoldsSpec => HeldBeforeExpressWindow
  <1>1. ControllerInv /\ HoldsInv => [OpensExpress => onHold']_controllerVars
    <2>1. SUFFICES ASSUME ControllerInv, HoldsInv, OpensExpress PROVE onHold'
      OBVIOUS
    <2>2. TickEntry /\ ~IsEmpty(currentSchedule) /\ gateOpen' \cap Express # {}
      BY <2>1 DEF OpensExpress
    <2>3. ~failed /\ untilTick = 0
      BY <2>2 DEF TickEntry
    <2>4. gateOpen' = FollowingObject(currentSchedule, foreseen, CurrentIndex)
      BY <2>1, OpensWhatFollows DEF OpensExpress, HoldsInv
    <2>5. ExpressFollows
      BY <2>2, <2>4 DEF ExpressFollows
    <2>6. holdRequests = {}
      BY <2>1, <2>3, NoRequestAtTick DEF HoldsInv
    <2>7. onHold
      BY <2>1, <2>2, <2>3, <2>5, <2>6 DEF HoldsInv, AdvanceInv
    <2>8. ~ReleaseNeeded(gateOpen')
      BY <2>2 DEF ReleaseNeeded
    <2>9. onHold' = TRUE \/ onHold' = (onHold /\ ~ReleaseNeeded(Object(TickSchedule, scheduleIndex)))
      BY <2>2 DEF TickEntry
    <2>10. gateOpen' = Object(TickSchedule, scheduleIndex)
      BY <2>1, <2>2, TickEntryInv
    <2>11. QED
      BY <2>7, <2>8, <2>9, <2>10
  <1>2. QED
    BY <1>1, HoldsAreConsistent, PTL DEF HeldBeforeExpressWindow
=============================================================================
