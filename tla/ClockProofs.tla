----------------------------- MODULE ClockProofs -----------------------------
(***************************************************************************)
(* The clock's lazily updated countdowns implement exact notification, for *)
(* any set of listeners, clock rate, numbers of ticks and horizon.         *)
(*                                                                         *)
(* Countdowns are relative to the last tick at which the clock was brought *)
(* up to date, instants are absolute.  The inductive invariant says that   *)
(* the two agree, that the list is ordered by either, and that whoever is  *)
(* still to be notified does not wait for the same instant a second time.  *)
(***************************************************************************)
EXTENDS Clock, FiniteSetTheorems, SequenceTheorems, TLAPS

\* Nobody is in a list of listeners twice.
Distinct(listeners) ==
  \A i, j \in 1 .. Len(listeners) : listeners[i] = listeners[j] => i = j

\* A list of entries whose countdowns count from the instant base.
IsList(s, base) ==
  /\ s \in Seq(ScheduledTickEntry)
  /\ \A i, j \in 1 .. Len(s) : i < j => s[i].ticks < s[j].ticks
  /\ \A i \in 1 .. Len(s) : s[i].timestamp = base + s[i].ticks * ClockRate
  /\ \A i \in 1 .. Len(s) : Distinct(s[i].listeners)

WaitsIn(s, l, t) ==
  \E i \in 1 .. Len(s) :
    /\ s[i].timestamp = t
    /\ \E j \in 1 .. Len(s[i].listeners) : s[i].listeners[j] = l

IsNotified(l) == \E j \in 1 .. Len(notifying) : notifying[j] = l

\* The last update was at a tick, and during a tick it is up to date.
TimeInv ==
  /\ lastLocalTickTimestamp = lastGlobalTickTimestamp
  /\ lastGlobalTickTimestamp <= now
  /\ \E n \in Nat : lastGlobalTickTimestamp = n * ClockRate
  /\ tick => lastGlobalTickTimestamp = now

NotifyInv ==
  /\ notifying # <<>> => tick
  /\ Distinct(notifying)
  /\ \A l \in Listener : IsNotified(l) => ~WaitsIn(scheduledTicks, l, now)

ClockInv ==
  /\ TypeOK
  /\ TimeInv
  /\ IsList(scheduledTicks, lastGlobalTickTimestamp)
  /\ \A i \in 1 .. Len(scheduledTicks) : scheduledTicks[i].timestamp >= now
  /\ NotifyInv

-----------------------------------------------------------------------------
(* Arithmetic *)

\* Every non-empty set of natural numbers has a least element: 0 .. n is a
\* strict subset of 0 .. m if n is less than m, and among finite sets that
\* relation is well-founded.
LEMMA LeastElement ==
  ASSUME NEW T \in SUBSET Nat, T # {}
  PROVE  \E n \in T : \A m \in T : n <= m
  <1> DEFINE R == StrictSubsetOrdering(Nat)
             U == {0 .. n : n \in T}
  <1>1. IsWellFoundedOn(R, FiniteSubsetsOf(Nat))
    BY FS_StrictSubsetOrderingWellFounded, Zenon
  <1>2. U \subseteq FiniteSubsetsOf(Nat)
    <2>1. \A n \in T : IsFiniteSet(0 .. n) /\ 0 .. n \subseteq Nat
      BY FS_Interval
    <2>2. QED
      BY <2>1 DEF FiniteSubsetsOf
  <1>3. U # {}
    OBVIOUS
  <1> HIDE DEF R
  <1>4. PICK x \in U : \A y \in U : ~(<<y, x>> \in R)
    BY <1>1, <1>2, <1>3, WFMin, Zenon
  <1>5. PICK n \in T : x = 0 .. n
    OBVIOUS
  <1>6. ASSUME NEW m \in T, m < n PROVE FALSE
    <2>1. 0 .. m \subseteq 0 .. n /\ n \notin 0 .. m /\ n \in 0 .. n
      BY <1>6
    <2>2. <<0 .. m, 0 .. n>> \in R
      BY <2>1 DEF R, StrictSubsetOrdering
    <2>3. QED
      BY <2>2, <1>4, <1>5
  <1>7. QED
    BY <1>6

\* Whole ticks in a time.
LEMMA Quotient ==
  ASSUME NEW n \in Nat
  PROVE  /\ n \div ClockRate \in Nat
         /\ (n \div ClockRate) * ClockRate <= n
         /\ n < (n \div ClockRate) * ClockRate + ClockRate
  BY ClockRateAssumption

LEMMA MoreTicksLater ==
  ASSUME NEW m \in Int, NEW n \in Int
  PROVE  /\ m < n => m * ClockRate + ClockRate <= n * ClockRate
         /\ m * ClockRate \in Int
         /\ m \in Nat => m * ClockRate \in Nat
  BY ClockRateAssumption

\* Ticks are counted from any whole number of them.
LEMMA QuotientFromTick ==
  ASSUME NEW m \in Nat, NEW n \in Nat
  PROVE  (m * ClockRate + n) \div ClockRate = m + n \div ClockRate
  BY ClockRateAssumption

-----------------------------------------------------------------------------
(* Lists *)

LEMMA EntryType ==
  ASSUME NEW s \in Seq(ScheduledTickEntry)
  PROVE  /\ Len(s) \in Nat
         /\ \A i \in 1 .. Len(s) :
              /\ s[i] \in ScheduledTickEntry
              /\ s[i].ticks \in Nat /\ s[i].timestamp \in Nat
              /\ s[i].listeners \in Seq(Listener)
  <1>1. Len(s) \in Nat
    BY LenProperties
  <1>2. \A i \in 1 .. Len(s) : s[i] \in ScheduledTickEntry
    BY ElementOfSeq
  <1>3. QED
    BY <1>1, <1>2 DEF ScheduledTickEntry

LEMMA FunctionIsSeq ==
  ASSUME NEW S, NEW n \in Nat, NEW f \in [1 .. n -> S]
  PROVE  f \in Seq(S) /\ Len(f) = n
  BY SeqDef

\* The search for the first countdown that is not less ends somewhere.
LEMMA LowerBoundFound ==
  ASSUME NEW s \in Seq(ScheduledTickEntry), NEW k \in Nat
  PROVE  /\ LowerBound(s, k) \in 1 .. Len(s) + 1
         /\ \A i \in 1 .. LowerBound(s, k) - 1 : s[i].ticks < k
         /\ LowerBound(s, k) <= Len(s) => s[LowerBound(s, k)].ticks >= k
  <1> DEFINE T == {p \in 1 .. Len(s) + 1 : p <= Len(s) => s[p].ticks >= k}
  <1>1. Len(s) \in Nat /\ \A i \in 1 .. Len(s) : s[i].ticks \in Nat
    BY EntryType
  <1>2. T \in SUBSET Nat /\ Len(s) + 1 \in T
    BY <1>1
  <1>3. PICK p \in T : \A q \in T : p <= q
    BY <1>2, LeastElement
  <1>4. \A i \in 1 .. p - 1 : s[i].ticks < k
    <2>1. SUFFICES ASSUME NEW i \in 1 .. p - 1, ~(s[i].ticks < k) PROVE FALSE
      OBVIOUS
    <2>2. i \in 1 .. Len(s)
      BY <1>1
    <2>3. i \in T
      BY <1>1, <2>1, <2>2
    <2>4. QED
      BY <1>3, <2>3
  <1>5. QED
    BY <1>3, <1>4 DEF LowerBound

\* Bringing countdowns up to date changes no instant and no listener, as long
\* as it does not go beyond the first of them.
LEMMA DecrementedList ==
  ASSUME NEW s, NEW base \in Nat, IsList(s, base), NEW n \in Nat,
         \A i \in 1 .. Len(s) : n <= s[i].ticks
  PROVE  /\ IsList(Decremented(s, n), base + n * ClockRate)
         /\ Len(Decremented(s, n)) = Len(s)
         /\ \A i \in 1 .. Len(s) :
              /\ Decremented(s, n)[i].ticks = s[i].ticks - n
              /\ Decremented(s, n)[i].timestamp = s[i].timestamp
              /\ Decremented(s, n)[i].listeners = s[i].listeners
  <1> DEFINE d == Decremented(s, n)
  <1>1. Len(s) \in Nat /\ \A i \in 1 .. Len(s) : s[i] \in ScheduledTickEntry
    BY EntryType DEF IsList
  <1>2. \A i \in 1 .. Len(s) :
          /\ d[i] = [s[i] EXCEPT !.ticks = @ - n]
          /\ d[i] \in ScheduledTickEntry
    <2>1. TAKE i \in 1 .. Len(s)
    <2>2. d[i] = [s[i] EXCEPT !.ticks = @ - n]
      BY DEF Decremented
    <2>3. s[i] \in ScheduledTickEntry /\ s[i].ticks - n \in Nat
      BY <1>1 DEF ScheduledTickEntry
    <2> HIDE DEF d
    <2>4. QED
      BY <2>2, <2>3 DEF ScheduledTickEntry
  <1>3. d \in [1 .. Len(s) -> ScheduledTickEntry]
    BY <1>2 DEF Decremented
  <1>4. d \in Seq(ScheduledTickEntry) /\ Len(d) = Len(s)
    BY <1>1, <1>3, FunctionIsSeq DEF Decremented
  <1>5. \A i \in 1 .. Len(s) :
          /\ d[i].ticks = s[i].ticks - n
          /\ d[i].timestamp = s[i].timestamp
          /\ d[i].listeners = s[i].listeners
    BY <1>1, <1>2 DEF ScheduledTickEntry
  <1>6. \A i \in 1 .. Len(s) :
          d[i].timestamp = base + n * ClockRate + d[i].ticks * ClockRate
    <2>1. TAKE i \in 1 .. Len(s)
    <2>2. s[i].ticks \in Nat
      BY <1>1 DEF ScheduledTickEntry
    <2>3. s[i].ticks * ClockRate = n * ClockRate + (s[i].ticks - n) * ClockRate
      BY <2>2, ClockRateAssumption
    <2>4. n * ClockRate \in Int /\ (s[i].ticks - n) * ClockRate \in Int
      <3>1. n \in Int /\ s[i].ticks - n \in Int
        BY <2>2
      <3>2. QED
        BY <3>1, MoreTicksLater
    <2>5. QED
      BY <1>5, <2>3, <2>4 DEF IsList
  <1>7. \A i, j \in 1 .. Len(s) : i < j => d[i].ticks < d[j].ticks
    <2>1. TAKE i, j \in 1 .. Len(s)
    <2>2. s[i].ticks \in Nat /\ s[j].ticks \in Nat
      BY <1>1 DEF ScheduledTickEntry
    <2>3. QED
      BY <1>5, <2>2 DEF IsList
  <1>8. IsList(d, base + n * ClockRate)
    BY <1>4, <1>5, <1>6, <1>7 DEF IsList
  <1> HIDE DEF d
  <1>9. QED
    BY <1>4, <1>5, <1>8 DEF d

\* One more listener of an entry is there once, and all others still are.
LEMMA WithListenerAdds ==
  ASSUME NEW e \in ScheduledTickEntry, Distinct(e.listeners), NEW l \in Listener
  PROVE  LET w == WithListener(e, l)
         IN  /\ w \in ScheduledTickEntry
             /\ w.ticks = e.ticks /\ w.timestamp = e.timestamp
             /\ Distinct(w.listeners)
             /\ \A x : (\E j \in 1 .. Len(w.listeners) : w.listeners[j] = x)
                         <=> \/ \E j \in 1 .. Len(e.listeners) : e.listeners[j] = x
                             \/ x = l
  <1> DEFINE w == WithListener(e, l)
             old == e.listeners
             new == Append(e.listeners, l)
  <1>1. old \in Seq(Listener) /\ Len(old) \in Nat
    BY LenProperties DEF ScheduledTickEntry
  <1>2. CASE \E j \in 1 .. Len(old) : old[j] = l
    BY <1>2 DEF WithListener
  <1>3. CASE ~\E j \in 1 .. Len(old) : old[j] = l
    <2>1. /\ new \in Seq(Listener) /\ Len(new) = Len(old) + 1
          /\ \A j \in 1 .. Len(old) : new[j] = old[j]
          /\ new[Len(old) + 1] = l
      BY <1>1, AppendProperties
    <2>2. w = [e EXCEPT !.listeners = new]
      BY <1>3 DEF WithListener
    <2>3. /\ w \in ScheduledTickEntry /\ w.listeners = new
          /\ w.ticks = e.ticks /\ w.timestamp = e.timestamp
      BY <2>1, <2>2 DEF ScheduledTickEntry
    <2> HIDE DEF new, w
    <2>4. Distinct(new)
      BY <1>1, <1>3, <2>1 DEF Distinct
    <2>5. \A x : (\E j \in 1 .. Len(new) : new[j] = x)
                    <=> (\E j \in 1 .. Len(old) : old[j] = x) \/ x = l
      BY <1>1, <2>1
    <2>6. QED
      BY <2>3, <2>4, <2>5 DEF w
  <1>4. QED
    BY <1>2, <1>3

\* addScheduledTickListener keeps the list in order, whether it finds the tick
\* or inserts it, and adds this listener at this instant and nothing else.
LEMMA AddListener ==
  ASSUME NEW s, NEW base \in Nat, IsList(s, base),
         NEW l \in Listener, NEW k \in Nat, NEW instant \in Nat,
         instant = base + k * ClockRate
  PROVE  LET r == AddScheduledTickListener(s, l, k, instant)
         IN  /\ IsList(r, base)
             /\ \A x, t : WaitsIn(r, x, t)
                            <=> WaitsIn(s, x, t) \/ (x = l /\ t = instant)
             /\ \A i \in 1 .. Len(r) :
                  \/ r[i].timestamp = instant
                  \/ \E j \in 1 .. Len(s) : r[i].timestamp = s[j].timestamp
  <1> DEFINE r == AddScheduledTickListener(s, l, k, instant)
             p == LowerBound(s, k)
             entry == [ticks |-> k, timestamp |-> instant, listeners |-> <<l>>]
  <1>1. s \in Seq(ScheduledTickEntry)
    BY DEF IsList
  <1>2. /\ Len(s) \in Nat
        /\ \A i \in 1 .. Len(s) :
             /\ s[i] \in ScheduledTickEntry
             /\ s[i].ticks \in Nat /\ s[i].timestamp \in Nat
             /\ s[i].listeners \in Seq(Listener)
    BY <1>1, EntryType
  <1>3. /\ p \in 1 .. Len(s) + 1
        /\ \A i \in 1 .. p - 1 : s[i].ticks < k
        /\ p <= Len(s) => s[p].ticks >= k
    BY <1>1, LowerBoundFound
  <1>4. CASE p <= Len(s) /\ s[p].ticks = k
    <2> DEFINE w == WithListener(s[p], l)
    <2>1. p \in 1 .. Len(s)
      BY <1>2, <1>3, <1>4
    <2>2. /\ w \in ScheduledTickEntry
          /\ w.ticks = s[p].ticks /\ w.timestamp = s[p].timestamp
          /\ Distinct(w.listeners)
          /\ \A x : (\E j \in 1 .. Len(w.listeners) : w.listeners[j] = x)
                      <=> \/ \E j \in 1 .. Len(s[p].listeners) : s[p].listeners[j] = x
                          \/ x = l
      BY <1>2, <2>1, WithListenerAdds DEF IsList
    <2>3. r = [s EXCEPT ![p] = w]
      BY <1>4 DEF AddScheduledTickListener
    <2> HIDE DEF w, r, p
    <2>4. /\ r \in Seq(ScheduledTickEntry) /\ Len(r) = Len(s)
          /\ \A i \in 1 .. Len(s) : r[i] = IF i = p THEN w ELSE s[i]
      BY <1>1, <2>1, <2>2, <2>3, ExceptSeq
    <2>5. \A i \in 1 .. Len(s) :
            r[i].ticks = s[i].ticks /\ r[i].timestamp = s[i].timestamp
      BY <2>2, <2>4
    <2>6. IsList(r, base)
      BY <2>2, <2>4, <2>5 DEF IsList
    <2>7. s[p].timestamp = instant
      BY <1>4, <2>1 DEF IsList
    <2>8. \A x, t : WaitsIn(r, x, t) <=> WaitsIn(s, x, t) \/ (x = l /\ t = instant)
      <3>1. TAKE x, t
      <3>2. \A i \in 1 .. Len(s) : i # p => r[i] = s[i]
        BY <2>4
      <3>3. r[p] = w
        BY <2>1, <2>4
      <3>4. WaitsIn(s, x, t) => WaitsIn(r, x, t)
        <4>1. SUFFICES ASSUME NEW i \in 1 .. Len(s), s[i].timestamp = t,
                              NEW j \in 1 .. Len(s[i].listeners), s[i].listeners[j] = x
                       PROVE  WaitsIn(r, x, t)
          BY DEF WaitsIn
        <4>2. \E m \in 1 .. Len(r[i].listeners) : r[i].listeners[m] = x
          <5>1. CASE i = p
            <6>1. \E m \in 1 .. Len(s[p].listeners) : s[p].listeners[m] = x
              BY <4>1, <5>1
            <6>2. \E m \in 1 .. Len(w.listeners) : w.listeners[m] = x
              BY <2>2, <6>1
            <6>3. QED
              BY <3>3, <5>1, <6>2
          <5>2. CASE i # p
            BY <3>2, <4>1, <5>2
          <5>3. QED
            BY <5>1, <5>2
        <4>3. QED
          BY <2>4, <2>5, <4>1, <4>2 DEF WaitsIn
      <3>5. x = l /\ t = instant => WaitsIn(r, x, t)
        <4>1. \E m \in 1 .. Len(w.listeners) : w.listeners[m] = l
          BY <2>2
        <4>2. p \in 1 .. Len(r) /\ r[p].timestamp = instant
          BY <2>1, <2>4, <2>5, <2>7
        <4>3. QED
          BY <3>3, <4>1, <4>2 DEF WaitsIn
      <3>6. WaitsIn(r, x, t) => WaitsIn(s, x, t) \/ (x = l /\ t = instant)
        <4>1. SUFFICES ASSUME NEW i \in 1 .. Len(s), r[i].timestamp = t,
                              NEW j \in 1 .. Len(r[i].listeners), r[i].listeners[j] = x
                       PROVE  WaitsIn(s, x, t) \/ (x = l /\ t = instant)
          BY <2>4 DEF WaitsIn
        <4>2. CASE i = p
          BY <2>1, <2>2, <2>7, <3>3, <4>1, <4>2 DEF WaitsIn
        <4>3. CASE i # p
          BY <3>2, <4>1, <4>3 DEF WaitsIn
        <4>4. QED
          BY <4>2, <4>3
      <3>7. QED
        BY <3>4, <3>5, <3>6
    <2>9. QED
      BY <2>4, <2>5, <2>6, <2>8 DEF r
  <1>5. CASE ~(p <= Len(s) /\ s[p].ticks = k)
    <2>1. \A i \in 1 .. Len(s) : i >= p => s[i].ticks > k
      <3>1. SUFFICES ASSUME NEW i \in 1 .. Len(s), i >= p PROVE s[i].ticks > k
        OBVIOUS
      <3>2. p \in 1 .. Len(s) /\ s[p].ticks > k
        BY <1>2, <1>3, <1>5, <3>1
      <3>3. CASE i = p
        BY <3>2, <3>3
      <3>4. CASE i # p
        <4>1. s[p].ticks < s[i].ticks
          BY <1>3, <3>1, <3>2, <3>4 DEF IsList
        <4>2. QED
          BY <1>2, <3>2, <4>1
      <3>5. QED
        BY <3>3, <3>4
    <2>2. r = [i \in 1 .. Len(s) + 1 |->
                 IF i < p THEN s[i] ELSE IF i = p THEN entry ELSE s[i - 1]]
      BY <1>5 DEF AddScheduledTickListener
    <2>3. <<l>> \in Seq(Listener) /\ Len(<<l>>) = 1 /\ <<l>>[1] = l
      OBVIOUS
    <2>4. /\ entry \in ScheduledTickEntry /\ entry.ticks = k
          /\ entry.timestamp = instant /\ entry.listeners = <<l>>
      BY <2>3 DEF ScheduledTickEntry
    <2>5. Distinct(entry.listeners)
      BY <2>3, <2>4 DEF Distinct
    <2> HIDE DEF r, p, entry
    <2>6. \A i \in 1 .. Len(s) + 1 :
            /\ i < p => i \in 1 .. Len(s) /\ r[i] = s[i]
            /\ i = p => r[i] = entry
            /\ i > p => i - 1 \in 1 .. Len(s) /\ r[i] = s[i - 1]
      BY <1>2, <1>3, <2>2
    <2>7. \A i \in 1 .. Len(s) + 1 : r[i] \in ScheduledTickEntry
      <3>1. TAKE i \in 1 .. Len(s) + 1
      <3>2. p \in Int /\ (i < p \/ i = p \/ i > p)
        BY <1>2, <1>3
      <3>3. QED
        BY <1>2, <2>4, <2>6, <3>2
    <2>8. r \in Seq(ScheduledTickEntry) /\ Len(r) = Len(s) + 1
      <3>1. Len(s) + 1 \in Nat /\ r \in [1 .. Len(s) + 1 -> ScheduledTickEntry]
        BY <1>2, <2>2, <2>7
      <3>2. QED
        BY <3>1, FunctionIsSeq
    <2>9. \A i, j \in 1 .. Len(s) + 1 : i < j => r[i].ticks < r[j].ticks
      <3>1. SUFFICES ASSUME NEW i \in 1 .. Len(s) + 1, NEW j \in 1 .. Len(s) + 1, i < j
                     PROVE  r[i].ticks < r[j].ticks
        OBVIOUS
      <3>2. CASE j < p
        <4>1. i < p
          BY <1>2, <1>3, <3>1, <3>2
        <4>2. r[i] = s[i] /\ r[j] = s[j] /\ i \in 1 .. Len(s) /\ j \in 1 .. Len(s)
          BY <2>6, <3>2, <4>1
        <4>3. QED
          BY <3>1, <4>2 DEF IsList
      <3>3. CASE j = p
        BY <1>2, <1>3, <2>4, <2>6, <3>1, <3>3
      <3>4. CASE j > p /\ i = p
        BY <1>2, <1>3, <2>1, <2>4, <2>6, <3>1, <3>4
      <3>5. CASE j > p /\ i > p
        <4>1. /\ r[i] = s[i - 1] /\ r[j] = s[j - 1]
              /\ i - 1 \in 1 .. Len(s) /\ j - 1 \in 1 .. Len(s)
          BY <2>6, <3>5
        <4>2. i - 1 < j - 1
          BY <1>2, <3>1
        <4>3. QED
          BY <4>1, <4>2 DEF IsList
      <3>6. CASE j > p /\ i < p
        <4>1. /\ i \in 1 .. Len(s) /\ r[i] = s[i]
              /\ j - 1 \in 1 .. Len(s) /\ r[j] = s[j - 1]
          BY <2>6, <3>6
        <4>2. s[i].ticks < k /\ k < s[j - 1].ticks
          BY <1>2, <1>3, <2>1, <3>6, <4>1
        <4>3. s[i].ticks \in Int /\ s[j - 1].ticks \in Int /\ k \in Int
          BY <1>2, <4>1
        <4>4. QED
          BY <4>1, <4>2, <4>3
      <3>7. QED
        BY <1>3, <3>2, <3>3, <3>4, <3>5, <3>6
    <2>10. \A i \in 1 .. Len(s) + 1 :
             /\ r[i].timestamp = base + r[i].ticks * ClockRate
             /\ Distinct(r[i].listeners)
      <3>1. TAKE i \in 1 .. Len(s) + 1
      <3>2. CASE i < p
        BY <2>6, <3>2 DEF IsList
      <3>3. CASE i = p
        BY <2>4, <2>5, <2>6, <3>3
      <3>4. CASE i > p
        BY <2>6, <3>4 DEF IsList
      <3>5. QED
        BY <1>3, <3>2, <3>3, <3>4
    <2>11. IsList(r, base)
      BY <2>8, <2>9, <2>10 DEF IsList
    <2>12. \A i \in 1 .. Len(r) :
             \/ r[i].timestamp = instant
             \/ \E j \in 1 .. Len(s) : r[i].timestamp = s[j].timestamp
      <3>1. TAKE i \in 1 .. Len(r)
      <3>2. i \in 1 .. Len(s) + 1 /\ i \in Int /\ p \in Int
        BY <1>2, <1>3, <2>8
      <3>3. CASE i = p
        BY <2>4, <2>6, <3>2, <3>3
      <3>4. CASE i < p
        BY <2>6, <3>2, <3>4
      <3>5. CASE i > p
        BY <2>6, <3>2, <3>5
      <3>6. QED
        BY <3>2, <3>3, <3>4, <3>5
    <2>13. \A i \in 1 .. Len(s) : \E j \in 1 .. Len(r) : r[j] = s[i]
      <3>1. TAKE i \in 1 .. Len(s)
      <3>2. CASE i < p
        BY <1>2, <2>6, <2>8, <3>2
      <3>3. CASE i >= p
        <4>1. i + 1 \in 1 .. Len(s) + 1 /\ i + 1 > p /\ (i + 1) - 1 = i
          BY <1>2, <1>3, <3>3
        <4>2. QED
          BY <2>6, <2>8, <4>1
      <3>4. QED
        BY <1>3, <3>2, <3>3
    <2>14. \A i \in 1 .. Len(r) :
             r[i] = entry \/ \E j \in 1 .. Len(s) : r[i] = s[j]
      BY <1>3, <2>6, <2>8
    <2>15. p \in 1 .. Len(r) /\ r[p] = entry
      BY <1>3, <2>6, <2>8
    <2>16. \A x, t : WaitsIn(r, x, t) <=> WaitsIn(s, x, t) \/ (x = l /\ t = instant)
      <3>1. TAKE x, t
      <3>2. WaitsIn(s, x, t) => WaitsIn(r, x, t)
        BY <2>13, SMTT(30) DEF WaitsIn
      <3>3. x = l /\ t = instant => WaitsIn(r, x, t)
        BY <2>3, <2>4, <2>15 DEF WaitsIn
      <3>4. WaitsIn(r, x, t) => WaitsIn(s, x, t) \/ (x = l /\ t = instant)
        BY <2>3, <2>4, <2>14 DEF WaitsIn
      <3>5. QED
        BY <3>2, <3>3, <3>4
    <2>17. QED
      BY <2>11, <2>12, <2>16 DEF r
  <1>6. QED
    BY <1>4, <1>5

-----------------------------------------------------------------------------
(* The lazy update *)

LastTick == (now \div ClockRate) * ClockRate

\* Bringing the clock up to date leads to the last tick before now, and not
\* beyond any countdown.
LEMMA ElapsedIsInBounds ==
  ASSUME ClockInv
  PROVE  /\ ElapsedTicks \in Nat
         /\ LastTickTimestamp(ElapsedTicks) = LastTick
         /\ LastTick \in Nat /\ LastTick <= now
         /\ \E n \in Nat : LastTick = n * ClockRate
         /\ \A i \in 1 .. Len(scheduledTicks) : ElapsedTicks <= scheduledTicks[i].ticks
         /\ tick => ElapsedTicks = 0
  <1>1. now \in Nat /\ lastGlobalTickTimestamp \in Nat /\ scheduledTicks \in Seq(ScheduledTickEntry)
    BY HorizonAssumption DEF ClockInv, TypeOK
  <1>2. PICK n \in Nat : lastGlobalTickTimestamp = n * ClockRate
    BY DEF ClockInv, TimeInv
  <1>3. now - lastGlobalTickTimestamp \in Nat
    BY <1>1 DEF ClockInv, TimeInv
  <1> DEFINE e == ElapsedTicks
             since == now - lastGlobalTickTimestamp
  <1>4. e \in Nat /\ e * ClockRate <= since /\ e * ClockRate \in Nat
    BY <1>3, Quotient, MoreTicksLater DEF ElapsedTicks
  <1>5. now \div ClockRate = n + e
    <2>1. now = n * ClockRate + since
      BY <1>1, <1>2, <1>3
    <2>2. QED
      BY <1>3, <2>1, QuotientFromTick DEF ElapsedTicks
  <1>6. (n + e) * ClockRate = n * ClockRate + e * ClockRate
    BY <1>4, ClockRateAssumption
  <1>7. LastTickTimestamp(e) = LastTick
    BY <1>2, <1>5, <1>6 DEF LastTickTimestamp, LastTick
  <1>8. LastTick \in Nat /\ LastTick <= now
    <2>1. now \div ClockRate \in Nat /\ (now \div ClockRate) * ClockRate <= now
      BY <1>1, Quotient
    <2>2. now \div ClockRate \in Int
      BY <2>1
    <2>3. (now \div ClockRate) * ClockRate \in Nat
      BY <2>1, <2>2, MoreTicksLater
    <2>4. QED
      BY <2>1, <2>3 DEF LastTick
  <1>9. \E m \in Nat : LastTick = m * ClockRate
    BY <1>1, Quotient DEF LastTick
  <1>10. \A i \in 1 .. Len(scheduledTicks) : e <= scheduledTicks[i].ticks
    <2>1. SUFFICES ASSUME NEW i \in 1 .. Len(scheduledTicks),
                          ~(e <= scheduledTicks[i].ticks)
                   PROVE  FALSE
      OBVIOUS
    <2> DEFINE c == scheduledTicks[i].ticks
    <2>2. c \in Nat
      BY <1>1, EntryType
    <2>3. c * ClockRate + ClockRate <= e * ClockRate /\ c * ClockRate \in Nat
      <3>1. c \in Int /\ e \in Int /\ c < e
        BY <1>4, <2>1, <2>2
      <3>2. QED
        BY <2>2, <3>1, MoreTicksLater
    <2>4. lastGlobalTickTimestamp + c * ClockRate >= now
      BY DEF ClockInv, IsList
    <2>5. QED
      BY <1>1, <1>4, <2>3, <2>4, ClockRateAssumption
  <1>11. tick => e = 0
    <2>1. SUFFICES ASSUME tick, e # 0 PROVE FALSE
      OBVIOUS
    <2>2. since = 0
      BY <1>1, <2>1 DEF ClockInv, TimeInv
    <2>3. 0 * ClockRate + ClockRate <= e * ClockRate
      <3>1. 0 \in Int /\ e \in Int /\ 0 < e
        BY <1>4, <2>1
      <3>2. QED
        BY <3>1, MoreTicksLater
    <2>4. QED
      BY <1>4, <2>2, <2>3, ClockRateAssumption
  <1>12. QED
    BY <1>4, <1>7, <1>8, <1>9, <1>10, <1>11

\* The list after the update is that of the last tick, with the same listeners
\* waiting for the same instants.
LEMMA UpToDateList ==
  ASSUME ClockInv
  PROVE  LET s == UpToDate(scheduledTicks)
         IN  /\ IsList(s, LastTick)
             /\ Len(s) = Len(scheduledTicks)
             /\ \A i \in 1 .. Len(s) : s[i].timestamp = scheduledTicks[i].timestamp
             /\ \A x, t : WaitsIn(s, x, t) <=> WaitsIn(scheduledTicks, x, t)
  <1> DEFINE s == UpToDate(scheduledTicks)
             d == Decremented(scheduledTicks, ElapsedTicks)
  <1>1. /\ IsList(scheduledTicks, lastGlobalTickTimestamp)
        /\ lastGlobalTickTimestamp \in Nat
    BY DEF ClockInv, TypeOK
  <1>2. CASE tick
    <2>1. s = scheduledTicks
      BY <1>2 DEF UpToDate
    <2>2. lastGlobalTickTimestamp = LastTick
      <3>1. LastTickTimestamp(0) = LastTick
        BY <1>2, ElapsedIsInBounds
      <3>2. QED
        BY <1>1, <3>1, ClockRateAssumption DEF LastTickTimestamp
    <2>3. QED
      BY <1>1, <2>1, <2>2
  <1>3. CASE ~tick
    <2>1. s = d
      BY <1>3 DEF UpToDate
    <2>2. lastGlobalTickTimestamp + ElapsedTicks * ClockRate = LastTick
      BY ElapsedIsInBounds DEF LastTickTimestamp
    <2>3. /\ IsList(d, LastTick)
          /\ Len(d) = Len(scheduledTicks)
          /\ \A i \in 1 .. Len(scheduledTicks) :
               /\ d[i].timestamp = scheduledTicks[i].timestamp
               /\ d[i].listeners = scheduledTicks[i].listeners
      BY <1>1, <2>2, ElapsedIsInBounds, DecrementedList
    <2>4. \A x, t : WaitsIn(d, x, t) <=> WaitsIn(scheduledTicks, x, t)
      <3> HIDE DEF d
      <3>1. QED
        BY <2>3, SMTT(30) DEF WaitsIn
    <2>5. QED
      BY <2>1, <2>3, <2>4
  <1>4. QED
    BY <1>2, <1>3

\* A subscription, at whatever time, adds this listener and the instant of the
\* tick that it asked for.
LEMMA Subscription ==
  ASSUME ClockInv, NEW l \in Listener, NEW k \in IdleTicks,
         SubscribeTick(l, k), UNCHANGED <<now, tick>>
  PROVE  /\ TimeInv' /\ lastGlobalTickTimestamp' \in Nat
         /\ IsList(scheduledTicks', lastGlobalTickTimestamp')
         /\ \A i \in 1 .. Len(scheduledTicks') : scheduledTicks'[i].timestamp >= now
         /\ \A x, t : WaitsIn(scheduledTicks', x, t)
                        <=> \/ WaitsIn(scheduledTicks, x, t)
                            \/ x = l /\ t = Timer!TickInstant(k)
  <1> DEFINE s == UpToDate(scheduledTicks)
             instant == Timer!TickInstant(k)
  <1>1. /\ IsList(s, LastTick)
        /\ Len(s) = Len(scheduledTicks)
        /\ \A i \in 1 .. Len(s) : s[i].timestamp = scheduledTicks[i].timestamp
        /\ \A x, t : WaitsIn(s, x, t) <=> WaitsIn(scheduledTicks, x, t)
    BY UpToDateList
  <1>2. /\ ElapsedTicks \in Nat
        /\ LastTickTimestamp(ElapsedTicks) = LastTick
        /\ LastTick \in Nat /\ LastTick <= now
        /\ \E n \in Nat : LastTick = n * ClockRate
        /\ tick => ElapsedTicks = 0
    BY ElapsedIsInBounds
  <1>3. now \in Nat /\ k \in Nat /\ lastGlobalTickTimestamp \in Nat
    BY HorizonAssumption, IdleTicksAssumption DEF ClockInv, TypeOK
  <1>4. instant = LastTick + k * ClockRate /\ instant \in Nat
    <2>1. now \div ClockRate \in Nat
      BY <1>3, Quotient
    <2>2. ((now \div ClockRate) + k) * ClockRate = LastTick + k * ClockRate
      BY <1>3, <2>1, ClockRateAssumption DEF LastTick
    <2>3. k * ClockRate \in Nat
      BY <1>3, MoreTicksLater
    <2>4. QED
      BY <1>2, <2>2, <2>3 DEF Timer!TickInstant
  <1>5. LastTickTimestamp(IF tick THEN 0 ELSE ElapsedTicks) = LastTick
    BY <1>2
  <1>6. now <= instant /\ scheduledTicks' = AddScheduledTickListener(s, l, k, instant)
    BY <1>4, <1>5 DEF SubscribeTick
  <1>7. /\ lastGlobalTickTimestamp' = LastTick
        /\ lastLocalTickTimestamp' = LastTick
        /\ tick => LastTick = now
    <2>1. lastGlobalTickTimestamp + ElapsedTicks * ClockRate = LastTick
      BY <1>2 DEF LastTickTimestamp
    <2>2. lastLocalTickTimestamp = lastGlobalTickTimestamp
          /\ (tick => lastGlobalTickTimestamp = now)
      BY DEF ClockInv, TimeInv
    <2>3. tick => lastGlobalTickTimestamp = LastTick
      BY <1>2, <1>3, <2>1, ClockRateAssumption
    <2>4. QED
      BY <1>2, <2>1, <2>2, <2>3 DEF SubscribeTick, UpdateTime
  <1>8. /\ IsList(scheduledTicks', LastTick)
        /\ \A x, t : WaitsIn(scheduledTicks', x, t)
                       <=> WaitsIn(s, x, t) \/ (x = l /\ t = instant)
        /\ \A i \in 1 .. Len(scheduledTicks') :
             \/ scheduledTicks'[i].timestamp = instant
             \/ \E j \in 1 .. Len(s) : scheduledTicks'[i].timestamp = s[j].timestamp
    <2> HIDE DEF s, instant
    <2>1. QED
      BY <1>1, <1>2, <1>3, <1>4, <1>6, AddListener
  <1>9. \A j \in 1 .. Len(s) : s[j].timestamp >= now
    BY <1>1 DEF ClockInv
  <1>10. TimeInv'
    BY <1>2, <1>7 DEF TimeInv
  <1> HIDE DEF s, instant
  <1>11. \A i \in 1 .. Len(scheduledTicks') : scheduledTicks'[i].timestamp >= now
    BY <1>3, <1>4, <1>6, <1>8, <1>9
  <1>12. QED
    BY <1>1, <1>2, <1>7, <1>8, <1>10, <1>11 DEF instant

-----------------------------------------------------------------------------
(* The steps *)

\* Somebody is to be notified at an instant: now, or by a scheduled tick.
Waits(l, t) == (IsNotified(l) /\ t = now) \/ WaitsIn(scheduledTicks, l, t)

LEMMA PendingIs ==
  /\ \A p : p \in Pending <=> \E x, t : p = <<x, t>> /\ Waits(x, t)
  /\ \A p : p \in Pending' <=> \E x, t : p = <<x, t>> /\ Waits(x, t)'
  <1>1. \A p : p \in Pending <=>
          \/ \E i \in 1 .. Len(notifying) : p = <<notifying[i], now>>
          \/ \E i \in 1 .. Len(scheduledTicks) :
               \E j \in 1 .. Len(scheduledTicks[i].listeners) :
                 p = <<scheduledTicks[i].listeners[j], scheduledTicks[i].timestamp>>
    BY DEF Pending
  <1>2. \A p : p \in Pending' <=>
          \/ \E i \in 1 .. Len(notifying') : p = <<notifying'[i], now'>>
          \/ \E i \in 1 .. Len(scheduledTicks') :
               \E j \in 1 .. Len(scheduledTicks'[i].listeners) :
                 p = <<scheduledTicks'[i].listeners[j], scheduledTicks'[i].timestamp>>
    BY DEF Pending
  <1>3. \A p : p \in Pending <=> \E x, t : p = <<x, t>> /\ Waits(x, t)
    BY <1>1, Zenon DEF Waits, IsNotified, WaitsIn
  <1>4. \A p : p \in Pending' <=> \E x, t : p = <<x, t>> /\ Waits(x, t)'
    BY <1>2, Zenon DEF Waits, IsNotified, WaitsIn
  <1>5. QED
    BY <1>3, <1>4

\* Handling a tick moves the listeners of the front entry from the list to the
\* calls to be made: everybody still waits for the same instants.
LEMMA HandleTickStep ==
  ASSUME ClockInv, HandleTick
  PROVE  ClockInv' /\ \A x, t : Waits(x, t)' <=> Waits(x, t)
  <1> DEFINE s == scheduledTicks
             e == Head(s).ticks
             d == Decremented(s, e)
  <1>1. /\ s \in Seq(ScheduledTickEntry) /\ s # <<>>
        /\ IsList(s, lastGlobalTickTimestamp)
        /\ lastGlobalTickTimestamp \in Nat /\ now \in Nat
    BY HorizonAssumption DEF ClockInv, TypeOK, HandleTick
  <1>2. Len(s) \in Nat /\ 1 \in 1 .. Len(s) /\ Head(s) = s[1]
    BY <1>1
  <1>3. s[1].ticks \in Nat /\ s[1].listeners \in Seq(Listener)
    BY <1>1, <1>2, EntryType
  <1>4. \A i \in 1 .. Len(s) : e <= s[i].ticks
    <2>1. TAKE i \in 1 .. Len(s)
    <2>2. i = 1 \/ (1 < i /\ s[1].ticks < s[i].ticks)
      BY <1>1, <1>2 DEF IsList
    <2>3. s[i].ticks \in Nat
      BY <1>1, EntryType
    <2>4. QED
      BY <1>2, <1>3, <2>2, <2>3
  <1>5. lastGlobalTickTimestamp + e * ClockRate = now
    BY <1>1, <1>2 DEF HandleTick, IsList
  <1>6. /\ IsList(d, now)
        /\ Len(d) = Len(s)
        /\ \A i \in 1 .. Len(s) :
             /\ d[i].ticks = s[i].ticks - e
             /\ d[i].timestamp = s[i].timestamp
             /\ d[i].listeners = s[i].listeners
    <2>1. e \in Nat
      BY <1>2, <1>3
    <2> HIDE DEF e
    <2>2. QED
      BY <1>1, <1>4, <1>5, <2>1, DecrementedList
  <1>7. scheduledTicks' = Tail(d) /\ notifying' = s[1].listeners /\ tick' /\ now' = now
    BY <1>2 DEF HandleTick, WithoutNextTick
  <1>8. lastGlobalTickTimestamp' = now /\ lastLocalTickTimestamp' = now
    <2>1. e = 0 => lastGlobalTickTimestamp = now
      BY <1>1, <1>5, ClockRateAssumption
    <2>2. ClockRate * e = e * ClockRate
      BY <1>2, <1>3, ClockRateAssumption
    <2>3. QED
      BY <1>5, <2>1, <2>2 DEF HandleTick, ClockInv, TimeInv
  <1>9. \E n \in Nat : now = n * ClockRate
    <2>1. PICK n \in Nat : lastGlobalTickTimestamp = n * ClockRate
      BY DEF ClockInv, TimeInv
    <2>2. now = (n + e) * ClockRate
      BY <1>2, <1>3, <1>5, <2>1, ClockRateAssumption
    <2>3. QED
      BY <1>2, <1>3, <2>2
  <1> HIDE DEF d, e
  <1>10. /\ Tail(d) \in Seq(ScheduledTickEntry) /\ Len(Tail(d)) = Len(s) - 1
         /\ \A i \in 1 .. Len(s) - 1 : Tail(d)[i] = d[i + 1] /\ i + 1 \in 1 .. Len(s)
    <2>1. d \in Seq(ScheduledTickEntry) /\ d # <<>>
      BY <1>2, <1>6 DEF IsList
    <2>2. QED
      BY <1>2, <1>6, <2>1
  <1> DEFINE r == Tail(d)
  <1> HIDE DEF r
  <1>11. IsList(r, now)
    <2>1. \A i, j \in 1 .. Len(r) : i < j => r[i].ticks < r[j].ticks
      BY <1>2, <1>6, <1>10 DEF r, IsList
    <2>2. \A i \in 1 .. Len(r) : r[i].timestamp = now + r[i].ticks * ClockRate
      BY <1>6, <1>10 DEF r, IsList
    <2>3. \A i \in 1 .. Len(r) : Distinct(r[i].listeners)
      BY <1>6, <1>10 DEF r, IsList
    <2>4. QED
      BY <1>10, <2>1, <2>2, <2>3 DEF r, IsList
  <1>12. \A i \in 1 .. Len(r) : r[i].timestamp > now
    <2>1. TAKE i \in 1 .. Len(r)
    <2>2. r[i] = d[i + 1] /\ i + 1 \in 1 .. Len(s) /\ 1 < i + 1
      BY <1>2, <1>10 DEF r
    <2>3. s[1].ticks < s[i + 1].ticks /\ s[i + 1].ticks \in Nat
      BY <1>1, <1>2, <2>2, EntryType DEF IsList
    <2>4. 0 \in Int /\ 0 < r[i].ticks /\ r[i].ticks \in Int
      BY <1>2, <1>3, <1>6, <2>2, <2>3 DEF e
    <2>5. 0 * ClockRate + ClockRate <= r[i].ticks * ClockRate /\ r[i].ticks * ClockRate \in Int
      BY <2>4, MoreTicksLater
    <2>6. QED
      BY <1>1, <1>11, <2>5, ClockRateAssumption DEF IsList
  <1>13. \A x : ~WaitsIn(r, x, now)
    BY <1>1, <1>12 DEF WaitsIn
  <1>14. scheduledTicks' = r
    BY <1>7 DEF r
  <1>15. ClockInv'
    <2>1. TypeOK'
      BY <1>1, <1>3, <1>7, <1>8, <1>10, <1>14 DEF r, TypeOK, ClockInv
    <2>2. TimeInv'
      BY <1>1, <1>7, <1>8, <1>9 DEF TimeInv
    <2>3. IsList(scheduledTicks', lastGlobalTickTimestamp')
      BY <1>8, <1>11, <1>14
    <2>4. \A i \in 1 .. Len(scheduledTicks') : scheduledTicks'[i].timestamp >= now'
      <3>1. \A i \in 1 .. Len(r) : r[i].timestamp \in Nat
        BY <1>10, EntryType DEF r
      <3>2. \A i \in 1 .. Len(r) : r[i].timestamp >= now
        BY <1>1, <1>12, <3>1
      <3>3. QED
        BY <1>7, <1>14, <3>2
    <2>5. Distinct(notifying')
      BY <1>1, <1>2, <1>7 DEF IsList
    <2>6. NotifyInv'
      BY <1>7, <1>13, <1>14, <2>5 DEF NotifyInv
    <2>7. QED
      BY <2>1, <2>2, <2>3, <2>4, <2>6 DEF ClockInv
  <1>16. ASSUME NEW x, NEW t PROVE Waits(x, t)' <=> Waits(x, t)
    <2>1. Waits(x, t) <=> WaitsIn(s, x, t)
      <3>1. notifying = <<>>
        BY DEF ClockInv, NotifyInv, HandleTick
      <3>2. QED
        BY <3>1 DEF Waits, IsNotified
    <2>2. IsNotified(x)' <=> \E j \in 1 .. Len(s[1].listeners) : s[1].listeners[j] = x
      BY <1>7 DEF IsNotified
    <2>3. s[1].timestamp = now
      BY <1>2 DEF HandleTick
    <2>4. ASSUME WaitsIn(s, x, t) PROVE Waits(x, t)'
      <3>1. PICK i \in 1 .. Len(s) :
              /\ s[i].timestamp = t
              /\ \E j \in 1 .. Len(s[i].listeners) : s[i].listeners[j] = x
        BY <2>4 DEF WaitsIn
      <3>2. CASE i = 1
        BY <1>7, <2>2, <2>3, <3>1, <3>2 DEF Waits
      <3>3. CASE i # 1
        <4>1. i - 1 \in 1 .. Len(r) /\ r[i - 1] = d[i]
          BY <1>2, <1>10, <3>1, <3>3 DEF r
        <4>2. r[i - 1].timestamp = t /\ r[i - 1].listeners = s[i].listeners
          BY <1>6, <3>1, <4>1
        <4>3. WaitsIn(r, x, t)
          BY <3>1, <4>1, <4>2 DEF WaitsIn
        <4>4. QED
          BY <1>14, <4>3 DEF Waits
      <3>4. QED
        BY <3>2, <3>3
    <2>5. ASSUME WaitsIn(r, x, t) PROVE WaitsIn(s, x, t)
      <3>1. PICK i \in 1 .. Len(r) :
              /\ r[i].timestamp = t
              /\ \E j \in 1 .. Len(r[i].listeners) : r[i].listeners[j] = x
        BY <2>5 DEF WaitsIn
      <3>2. i + 1 \in 1 .. Len(s) /\ r[i] = d[i + 1]
        BY <1>10, <3>1 DEF r
      <3>3. s[i + 1].timestamp = t /\ s[i + 1].listeners = r[i].listeners
        BY <1>6, <3>1, <3>2
      <3>4. QED
        BY <3>1, <3>2, <3>3 DEF WaitsIn
    <2>6. IsNotified(x)' /\ t = now => WaitsIn(s, x, t)
      BY <1>2, <2>2, <2>3 DEF WaitsIn
    <2>7. QED
      BY <1>7, <1>14, <2>1, <2>4, <2>5, <2>6 DEF Waits
  <1>17. QED
    BY <1>15, <1>16

\* A listener that is called is not to be called again, and waits for later
\* ticks only if it subscribes one.
LEMMA NotifyListenerStep ==
  ASSUME ClockInv, NotifyListener
  PROVE  /\ ClockInv'
         /\ \E l \in Listener :
              /\ Waits(l, now)
              /\ \/ \A x, t : Waits(x, t)' <=> Waits(x, t) /\ ~(x = l /\ t = now)
                 \/ \E k \in IdleTicks :
                      \A x, t : Waits(x, t)'
                        <=> \/ Waits(x, t) /\ ~(x = l /\ t = now)
                            \/ x = l /\ t = Timer!TickInstant(k)
  <1> DEFINE l == Head(notifying)
  <1>1. /\ notifying \in Seq(Listener) /\ notifying # <<>>
        /\ tick /\ now' = now /\ tick' = tick
    BY DEF ClockInv, TypeOK, NotifyInv, NotifyListener
  <1>2. /\ Len(notifying) \in Nat /\ 1 \in 1 .. Len(notifying)
        /\ l = notifying[1] /\ l \in Listener
    BY <1>1
  <1>3. /\ notifying' \in Seq(Listener) /\ Len(notifying') = Len(notifying) - 1
        /\ \A i \in 1 .. Len(notifying) - 1 :
             notifying'[i] = notifying[i + 1] /\ i + 1 \in 1 .. Len(notifying)
    <2>1. notifying' = Tail(notifying)
      BY DEF NotifyListener
    <2>2. QED
      BY <1>1, <1>2, <2>1
  <1>4. Distinct(notifying)
    BY DEF ClockInv, NotifyInv
  <1>5. Distinct(notifying')
    <2>1. SUFFICES ASSUME NEW i \in 1 .. Len(notifying'), NEW j \in 1 .. Len(notifying'),
                          notifying'[i] = notifying'[j]
                   PROVE  i = j
      BY DEF Distinct
    <2>2. /\ notifying[i + 1] = notifying[j + 1]
          /\ i + 1 \in 1 .. Len(notifying) /\ j + 1 \in 1 .. Len(notifying)
      BY <1>3, <2>1
    <2>3. i + 1 = j + 1
      BY <1>4, <2>2 DEF Distinct
    <2>4. QED
      BY <1>2, <1>3, <2>3
  <1>6. \A x : IsNotified(x)' <=> IsNotified(x) /\ x # l
    <2>1. TAKE x
    <2>2. ASSUME NEW i \in 1 .. Len(notifying'), notifying'[i] = x
          PROVE  IsNotified(x) /\ x # l
      <3>1. notifying[i + 1] = x /\ i + 1 \in 1 .. Len(notifying) /\ i + 1 # 1
        BY <1>2, <1>3, <2>2
      <3>2. QED
        BY <1>2, <1>4, <3>1 DEF Distinct, IsNotified
    <2>3. ASSUME NEW i \in 1 .. Len(notifying), notifying[i] = x, x # l
          PROVE  IsNotified(x)'
      <3>1. i # 1
        BY <1>2, <2>3
      <3>2. i - 1 \in 1 .. Len(notifying') /\ (i - 1) + 1 = i
        BY <1>2, <1>3, <3>1
      <3>3. notifying'[i - 1] = x
        BY <1>3, <2>3, <3>2
      <3>4. QED
        BY <3>2, <3>3 DEF IsNotified
    <2>4. QED
      BY <2>2, <2>3 DEF IsNotified
  <1>7. IsNotified(l) /\ Waits(l, now) /\ ~WaitsIn(scheduledTicks, l, now)
    BY <1>2 DEF IsNotified, Waits, ClockInv, NotifyInv
  <1> HIDE DEF l
  <1>8. CASE UNCHANGED <<lastGlobalTickTimestamp, lastLocalTickTimestamp, scheduledTicks>>
    <2>1. NotifyInv'
      BY <1>1, <1>5, <1>6, <1>8 DEF ClockInv, NotifyInv, WaitsIn
    <2>2. ClockInv'
      BY <1>1, <1>3, <1>8, <2>1 DEF ClockInv, TypeOK, TimeInv
    <2>3. \A x, t : Waits(x, t)' <=> Waits(x, t) /\ ~(x = l /\ t = now)
      BY <1>1, <1>6, <1>7, <1>8 DEF Waits
    <2>4. QED
      BY <1>2, <1>7, <2>2, <2>3
  <1>9. CASE \E k \in IdleTicks : SubscribeTick(l, k)
    <2>1. PICK k \in IdleTicks : SubscribeTick(l, k)
      BY <1>9
    <2>2. /\ TimeInv' /\ lastGlobalTickTimestamp' \in Nat
          /\ IsList(scheduledTicks', lastGlobalTickTimestamp')
          /\ \A i \in 1 .. Len(scheduledTicks') : scheduledTicks'[i].timestamp >= now
          /\ \A x, t : WaitsIn(scheduledTicks', x, t)
                         <=> \/ WaitsIn(scheduledTicks, x, t)
                             \/ x = l /\ t = Timer!TickInstant(k)
      BY <1>1, <1>2, <2>1, Subscription
    <2>3. NotifyInv'
      BY <1>1, <1>5, <1>6, <2>2 DEF ClockInv, NotifyInv
    <2>4. ClockInv'
      BY <1>1, <1>3, <2>2, <2>3 DEF ClockInv, TypeOK, TimeInv, IsList
    <2>5. \A x, t : Waits(x, t)' <=> \/ Waits(x, t) /\ ~(x = l /\ t = now)
                                     \/ x = l /\ t = Timer!TickInstant(k)
      BY <1>1, <1>6, <1>7, <2>2 DEF Waits
    <2>6. QED
      BY <1>2, <1>7, <2>4, <2>5
  <1>10. QED
    BY <1>8, <1>9 DEF NotifyListener, l

\* Reading the clock changes nobody's instants.
LEMMA ReadTimeStep ==
  ASSUME ClockInv, ReadTime
  PROVE  ClockInv' /\ \A x, t : Waits(x, t)' <=> Waits(x, t)
  <1> DEFINE s == UpToDate(scheduledTicks)
  <1>1. /\ IsList(s, LastTick)
        /\ Len(s) = Len(scheduledTicks)
        /\ \A i \in 1 .. Len(s) : s[i].timestamp = scheduledTicks[i].timestamp
        /\ \A x, t : WaitsIn(s, x, t) <=> WaitsIn(scheduledTicks, x, t)
    BY UpToDateList
  <1>2. /\ lastGlobalTickTimestamp + ElapsedTicks * ClockRate = LastTick
        /\ LastTick \in Nat /\ LastTick <= now
        /\ \E n \in Nat : LastTick = n * ClockRate
    BY ElapsedIsInBounds DEF LastTickTimestamp
  <1>3. /\ lastGlobalTickTimestamp' = LastTick /\ lastLocalTickTimestamp' = LastTick
        /\ scheduledTicks' = s /\ ~tick /\ UNCHANGED <<now, tick, notifying>>
    BY <1>2 DEF ReadTime, UpdateTime, LastTickTimestamp, ClockInv, TimeInv
  <1> HIDE DEF s
  <1>4. TimeInv'
    BY <1>2, <1>3 DEF TimeInv
  <1>5. NotifyInv'
    BY <1>1, <1>3 DEF ClockInv, NotifyInv, IsNotified
  <1>6. ClockInv'
    BY <1>1, <1>2, <1>3, <1>4, <1>5 DEF ClockInv, TypeOK, IsList
  <1>7. QED
    BY <1>1, <1>3, <1>6 DEF Waits, IsNotified

\* So does a subscription, but for the one that it adds.
LEMMA SubscribeStep ==
  ASSUME ClockInv, NEW l \in Listener, NEW k \in IdleTicks, Subscribe(l, k)
  PROVE  /\ ClockInv'
         /\ \A x, t : Waits(x, t)' <=> \/ Waits(x, t)
                                       \/ x = l /\ t = Timer!TickInstant(k)
  <1>1. SubscribeTick(l, k) /\ ~tick /\ UNCHANGED <<now, tick, notifying>>
    BY DEF Subscribe
  <1>2. /\ TimeInv' /\ lastGlobalTickTimestamp' \in Nat
        /\ IsList(scheduledTicks', lastGlobalTickTimestamp')
        /\ \A i \in 1 .. Len(scheduledTicks') : scheduledTicks'[i].timestamp >= now
        /\ \A x, t : WaitsIn(scheduledTicks', x, t)
                       <=> \/ WaitsIn(scheduledTicks, x, t)
                           \/ x = l /\ t = Timer!TickInstant(k)
    BY <1>1, Subscription
  <1>3. notifying = <<>>
    BY <1>1 DEF ClockInv, NotifyInv
  <1>4. NotifyInv'
    BY <1>1, <1>3 DEF ClockInv, NotifyInv, IsNotified, Distinct
  <1>5. ClockInv'
    BY <1>1, <1>2, <1>4 DEF ClockInv, TypeOK, TimeInv, IsList
  <1>6. QED
    BY <1>1, <1>2, <1>5 DEF Waits, IsNotified

\* Time passes only when nobody is to be notified.
LEMMA ElapseStep ==
  ASSUME ClockInv, Elapse
  PROVE  /\ ClockInv'
         /\ \A x, t : Waits(x, t) => t > now
         /\ \A x, t : Waits(x, t)' <=> Waits(x, t)
  <1>1. now \in Nat /\ now' = now + 1 /\ now' \in 0 .. Horizon /\ notifying = <<>>
    BY HorizonAssumption DEF ClockInv, TypeOK, NotifyInv, Elapse
  <1>2. \A i \in 1 .. Len(scheduledTicks) :
          scheduledTicks[i].timestamp \in Nat /\ scheduledTicks[i].timestamp > now
    <2>1. TAKE i \in 1 .. Len(scheduledTicks)
    <2>2. scheduledTicks[i].timestamp \in Nat
      BY EntryType DEF ClockInv, TypeOK
    <2>3. QED
      BY <1>1, <2>2 DEF ClockInv, Elapse
  <1>3. UNCHANGED <<lastGlobalTickTimestamp, lastLocalTickTimestamp,
                    scheduledTicks, tick, notifying>> /\ ~tick
    BY DEF Elapse
  <1>4. \A x : ~IsNotified(x) /\ ~IsNotified(x)'
    BY <1>1, <1>3 DEF IsNotified
  <1>5. TypeOK'
    BY <1>1, <1>3 DEF ClockInv, TypeOK
  <1>6. TimeInv'
    <2>1. lastGlobalTickTimestamp <= now /\ lastGlobalTickTimestamp \in Nat
      BY DEF ClockInv, TimeInv, TypeOK
    <2>2. lastGlobalTickTimestamp <= now'
      BY <1>1, <2>1
    <2>3. QED
      BY <1>3, <2>2 DEF ClockInv, TimeInv
  <1>7. \A i \in 1 .. Len(scheduledTicks) : scheduledTicks[i].timestamp >= now'
    BY <1>1, <1>2
  <1>8. NotifyInv'
    BY <1>1, <1>3, <1>4 DEF NotifyInv, Distinct
  <1>9. ClockInv'
    BY <1>3, <1>5, <1>6, <1>7, <1>8 DEF ClockInv
  <1>10. \A x, t : Waits(x, t) => t > now
    BY <1>2, <1>4 DEF Waits, WaitsIn
  <1>11. QED
    BY <1>3, <1>4, <1>9, <1>10 DEF Waits

-----------------------------------------------------------------------------
(* The theorems *)

LEMMA ClockInvInit == Init => ClockInv
  <1> SUFFICES ASSUME Init PROVE ClockInv
    OBVIOUS
  <1>1. TypeOK
    <2>1. 0 \in 0 .. Horizon
      BY HorizonAssumption
    <2>2. <<>> \in Seq(ScheduledTickEntry) /\ <<>> \in Seq(Listener)
      BY EmptySeq
    <2>3. QED
      BY <2>1, <2>2 DEF Init, TypeOK
  <1>2. TimeInv
    <2>1. 0 = 0 * ClockRate
      BY ClockRateAssumption
    <2>2. QED
      BY <2>1 DEF Init, TimeInv
  <1>3. /\ scheduledTicks \in Seq(ScheduledTickEntry)
        /\ Len(scheduledTicks) = 0 /\ Len(notifying) = 0
    BY DEF Init
  <1>4. IsList(scheduledTicks, lastGlobalTickTimestamp)
    BY <1>3 DEF IsList
  <1>5. NotifyInv
    BY <1>3 DEF Init, NotifyInv, IsNotified, Distinct
  <1>6. QED
    BY <1>1, <1>2, <1>3, <1>4, <1>5 DEF ClockInv

LEMMA ClockInvStep == ClockInv /\ [Next]_vars => ClockInv'
  <1> SUFFICES ASSUME ClockInv, [Next]_vars PROVE ClockInv'
    OBVIOUS
  <1>1. CASE HandleTick
    BY <1>1, HandleTickStep
  <1>2. CASE NotifyListener
    BY <1>2, NotifyListenerStep
  <1>3. CASE EndTick
    BY <1>3 DEF EndTick, ClockInv, TypeOK, TimeInv, IsList, NotifyInv,
                IsNotified, WaitsIn
  <1>4. CASE Elapse
    BY <1>4, ElapseStep
  <1>5. CASE ReadTime
    BY <1>5, ReadTimeStep
  <1>6. ASSUME NEW l \in Listener, NEW k \in IdleTicks, Subscribe(l, k)
        PROVE  ClockInv'
    BY <1>6, SubscribeStep
  <1>7. CASE UNCHANGED vars
    BY <1>7 DEF vars, ClockInv, TypeOK, TimeInv, IsList, NotifyInv,
                IsNotified, WaitsIn
  <1>8. QED
    BY <1>1, <1>2, <1>3, <1>4, <1>5, <1>6, <1>7 DEF Next

\* The state of ClockBase is well typed, its countdowns count from the last
\* tick at which it was brought up to date, and no listener is due twice.
THEOREM ClockIsConsistent == Spec => []ClockInv
  <1>1. QED
    BY ClockInvInit, ClockInvStep, PTL DEF Spec

\* The assertion of ClockBase::handleMessage, that the self-message which
\* arrives is the front entry's, holds whoever subscribes what, and whenever.
THEOREM TheFrontEntryIsDue == Spec => []DueTickIsFront
  <1>1. ClockInv => DueTickIsFront
    <2> SUFFICES ASSUME ClockInv, NEW i \in 1 .. Len(scheduledTicks),
                        scheduledTicks[i].timestamp = now, i # 1
                 PROVE  FALSE
      BY DEF DueTickIsFront, ClockInv
    <2>1. /\ Len(scheduledTicks) \in Nat
          /\ \A j \in 1 .. Len(scheduledTicks) : scheduledTicks[j].ticks \in Nat
      BY EntryType DEF ClockInv, TypeOK
    <2>2. 1 \in 1 .. Len(scheduledTicks) /\ scheduledTicks[1].ticks < scheduledTicks[i].ticks
      BY <2>1 DEF ClockInv, IsList
    <2> DEFINE m == scheduledTicks[1].ticks
               n == scheduledTicks[i].ticks
    <2>3. m \in Int /\ n \in Int /\ m < n
      BY <2>1, <2>2
    <2>4. m * ClockRate + ClockRate <= n * ClockRate /\ m * ClockRate \in Int
          /\ n * ClockRate \in Int
      <3> HIDE DEF m, n
      <3>1. QED
        BY <2>3, MoreTicksLater
    <2>5. /\ now = lastGlobalTickTimestamp + n * ClockRate
          /\ lastGlobalTickTimestamp + m * ClockRate >= now
          /\ lastGlobalTickTimestamp \in Nat
      BY <2>2 DEF ClockInv, IsList, TypeOK
    <2> HIDE DEF m, n
    <2>6. QED
      BY <2>4, <2>5, ClockRateAssumption
  <1>2. QED
    BY ClockIsConsistent, <1>1, PTL

\* getTime returns the last tick however seldom updateTime was called, and the
\* countdowns agree with the instants of the entries' self-messages.
THEOREM CountdownsAgreeWithInstants == Spec => []CountdownsAgree
  <1>1. ClockInv => CountdownsAgree
    <2> SUFFICES ASSUME ClockInv PROVE CountdownsAgree
      OBVIOUS
    <2>1. /\ lastGlobalTickTimestamp + ElapsedTicks * ClockRate = LastTick
          /\ tick => ElapsedTicks = 0
      BY ElapsedIsInBounds DEF LastTickTimestamp
    <2>2. lastLocalTickTimestamp = lastGlobalTickTimestamp
          /\ lastGlobalTickTimestamp \in Nat
      BY DEF ClockInv, TimeInv, TypeOK
    <2>3. tick => lastLocalTickTimestamp = LastTick
      BY <2>1, <2>2, ClockRateAssumption
    <2>4. ReadsWholeTicks
      BY <2>1, <2>2, <2>3 DEF ReadsWholeTicks, GetTime, LastTick
    <2>5. QED
      BY <2>4 DEF CountdownsAgree, ClockInv, IsList
  <1>2. QED
    BY ClockIsConsistent, <1>1, PTL

LEMMA SamePending ==
  ASSUME \A x, t : Waits(x, t)' <=> Waits(x, t)
  PROVE  Pending' = Pending
  BY PendingIs

LEMMA PendingWaits == \A x, t : <<x, t>> \in Pending <=> Waits(x, t)
  <1>1. TAKE x, t
  <1>2. \A y, u : <<x, t>> = <<y, u>> => x = y /\ t = u
    OBVIOUS
  <1>3. <<x, t>> \in Pending <=> \E y, u : <<x, t>> = <<y, u>> /\ Waits(y, u)
    BY PendingIs
  <1>4. QED
    BY <1>2, <1>3, Zenon

\* A subscription adds its listener and its tick to those pending.
LEMMA SubscribeAddsOne ==
  ASSUME ClockInv, NEW l \in Listener, NEW k \in IdleTicks, Subscribe(l, k)
  PROVE  Timer!SubscribeTick(l, k)
  <1>1. \A x, t : Waits(x, t)' <=> Waits(x, t) \/ (x = l /\ t = Timer!TickInstant(k))
    BY SubscribeStep
  <1>2. Pending' = Pending \cup {<<l, Timer!TickInstant(k)>>}
    <2> DEFINE instant == Timer!TickInstant(k)
    <2> HIDE DEF instant
    <2>1. \A x, t : Waits(x, t)' <=> Waits(x, t) \/ (x = l /\ t = instant)
      BY <1>1 DEF instant
    <2>2. \A p : p \in Pending' <=> p \in Pending \/ p = <<l, instant>>
      BY <2>1, PendingIs, Zenon
    <2>3. QED
      BY <2>2 DEF instant
  <1>3. QED
    BY <1>2 DEF Timer!SubscribeTick, Subscribe

LEMMA NotifyTakesOne ==
  ASSUME ClockInv, NotifyListener
  PROVE  Timer!Notify
  <1>1. PICK l \in Listener :
          /\ Waits(l, now)
          /\ \/ \A x, t : Waits(x, t)' <=> Waits(x, t) /\ ~(x = l /\ t = now)
             \/ \E k \in IdleTicks :
                  \A x, t : Waits(x, t)'
                    <=> \/ Waits(x, t) /\ ~(x = l /\ t = now)
                        \/ x = l /\ t = Timer!TickInstant(k)
    BY NotifyListenerStep
  <1>2. <<l, now>> \in Pending /\ now' = now
    BY <1>1, PendingWaits DEF NotifyListener
  <1>3. CASE \A x, t : Waits(x, t)' <=> Waits(x, t) /\ ~(x = l /\ t = now)
    <2>1. \A p : p \in Pending' <=> p \in Pending /\ p # <<l, now>>
      BY <1>3, PendingIs
    <2>2. Pending' = Pending \ {<<l, now>>}
      BY <2>1
    <2>3. QED
      BY <1>2, <2>2 DEF Timer!Notify
  <1>4. ASSUME NEW k \in IdleTicks,
               \A x, t : Waits(x, t)'
                 <=> \/ Waits(x, t) /\ ~(x = l /\ t = now)
                     \/ x = l /\ t = Timer!TickInstant(k)
        PROVE  Timer!Notify
    <2> DEFINE instant == Timer!TickInstant(k)
    <2> HIDE DEF instant
    <2>1. \A x, t : Waits(x, t)' <=> \/ Waits(x, t) /\ ~(x = l /\ t = now)
                                     \/ x = l /\ t = instant
      BY <1>4 DEF instant
    <2>2. \A p : p \in Pending' <=> \/ p \in Pending /\ p # <<l, now>>
                                    \/ p = <<l, instant>>
      BY <2>1, PendingIs
    <2>3. Pending' = (Pending \ {<<l, now>>}) \cup {<<l, Timer!TickInstant(k)>>}
      BY <2>2 DEF instant
    <2>4. QED
      BY <1>2, <2>3 DEF Timer!Notify
  <1>5. QED
    BY <1>1, <1>3, <1>4

LEMMA StepImplementsTimer ==
  ClockInv /\ [Next]_vars => [Timer!Next]_(Timer!vars)
  <1> SUFFICES ASSUME ClockInv, [Next]_vars PROVE [Timer!Next]_(Timer!vars)
    OBVIOUS
  <1>1. ASSUME \A x, t : Waits(x, t)' <=> Waits(x, t), now' = now
        PROVE  UNCHANGED Timer!vars
    BY <1>1, SamePending DEF Timer!vars
  <1>2. CASE HandleTick
    BY <1>1, <1>2, HandleTickStep DEF HandleTick
  <1>3. CASE NotifyListener
    BY <1>3, NotifyTakesOne DEF Timer!Next
  <1>4. CASE EndTick
    BY <1>4 DEF EndTick, Timer!vars, Pending
  <1>5. CASE Elapse
    <2>1. /\ \A x, t : Waits(x, t) => t > now
          /\ \A x, t : Waits(x, t)' <=> Waits(x, t)
      BY <1>5, ElapseStep
    <2>2. \A p \in Pending : p[2] > now
      BY <2>1, PendingIs
    <2>3. Pending' = Pending
      BY <2>1, SamePending
    <2>4. QED
      BY <1>5, <2>2, <2>3 DEF Elapse, Timer!Elapse, Timer!Next
  <1>6. CASE ReadTime
    BY <1>1, <1>6, ReadTimeStep DEF ReadTime
  <1>7. ASSUME NEW l \in Listener, NEW k \in IdleTicks, Subscribe(l, k)
        PROVE  Timer!Next
    BY <1>7, SubscribeAddsOne DEF Timer!Next
  <1>8. CASE UNCHANGED vars
    BY <1>8 DEF vars, Timer!vars, Pending
  <1>9. QED
    BY <1>2, <1>3, <1>4, <1>5, <1>6, <1>7, <1>8 DEF Next

\* ClockBase keeps what a clock promises its listeners: each subscription is
\* notified once, at the instant of a tick, and time waits for that.
THEOREM ClockNotifiesOnTime == Spec => NotifiesOnTime
  <1>1. Init => Timer!Init
    <2> SUFFICES ASSUME Init PROVE Timer!Init
      OBVIOUS
    <2>1. \A x, t : ~Waits(x, t)
      BY DEF Init, Waits, IsNotified, WaitsIn
    <2>2. Pending = {}
      BY <2>1, PendingIs
    <2>3. QED
      BY <2>2 DEF Init, Timer!Init
  <1>2. QED
    BY <1>1, StepImplementsTimer, ClockIsConsistent, PTL
    DEF Spec, NotifiesOnTime, Timer!Spec

\* subscribeTick schedules the tick that was asked for, also when the countdowns
\* were out of date, and changes nobody else's.
THEOREM SubscriptionsAreExact == Spec => SubscribesTheRightTick
  <1> DEFINE Exact == \A l \in Listener, k \in IdleTicks :
                        Subscribe(l, k) => Timer!SubscribeTick(l, k)
  <1>1. ClockInv /\ [Next]_vars => [Exact]_vars
    BY SubscribeAddsOne
  <1>2. QED
    BY <1>1, ClockIsConsistent, PTL DEF Spec, SubscribesTheRightTick
=============================================================================
