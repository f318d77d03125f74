-------------------------------- MODULE Clock --------------------------------
(***************************************************************************)
(* ClockBase with IdealClock.  The clock simulates only the ticks that     *)
(* somebody has subscribed: a list of scheduled ticks, each with the       *)
(* number of ticks still to elapse, its instant, a self-message and its    *)
(* listeners.  The countdowns are brought up to date lazily, on a          *)
(* scheduled tick and whenever the clock is read or subscribed.            *)
(*                                                                         *)
(* handleMessage notifies the listeners by calling them, and they may      *)
(* subscribe again during the call; it is split here into its beginning,   *)
(* one step per listener, and its end.  Nothing else happens in between,   *)
(* because tick is TRUE.                                                   *)
(***************************************************************************)
EXTENDS Integers, Sequences

CONSTANTS
  Listener,
  ClockRate,
  IdleTicks,   \* the numbers of ticks that listeners wait
  Horizon      \* bound on the simulation time

ASSUME ClockRateAssumption == ClockRate \in Nat \ {0}
ASSUME IdleTicksAssumption == IdleTicks \subseteq Nat
ASSUME HorizonAssumption == Horizon \in Nat

VARIABLES
  now,                       \* simTime()
  lastGlobalTickTimestamp,
  lastLocalTickTimestamp,
  scheduledTicks,
  tick,                      \* a tick is being handled
  notifying                  \* the listeners of that tick not yet called

vars == <<now, lastGlobalTickTimestamp, lastLocalTickTimestamp,
          scheduledTicks, tick, notifying>>

\* timestamp is also when the entry's self-message is due.
ScheduledTickEntry ==
  [ticks : Nat, timestamp : Nat, listeners : Seq(Listener)]

TypeOK ==
  /\ now \in 0 .. Horizon
  /\ lastGlobalTickTimestamp \in Nat
  /\ lastLocalTickTimestamp \in Nat
  /\ scheduledTicks \in Seq(ScheduledTickEntry)
  /\ tick \in BOOLEAN
  /\ notifying \in Seq(Listener)

Init ==
  /\ now = 0
  /\ lastGlobalTickTimestamp = 0
  /\ lastLocalTickTimestamp = 0
  /\ scheduledTicks = <<>>
  /\ tick = FALSE
  /\ notifying = <<>>

-----------------------------------------------------------------------------
(* Lazy update of the time and the countdowns *)

\* IdealClock::lastTick: the ticks since the last global tick.
ElapsedTicks == (now - lastGlobalTickTimestamp) \div ClockRate

\* Mutant: the countdowns are not brought up to date.
DecrementedNot(s, ticks) == s

\* decrementScheduledTickCountdowns
Decremented(s, ticks) ==
  [i \in 1 .. Len(s) |-> [s[i] EXCEPT !.ticks = @ - ticks]]

\* Mutant: the last tick is taken to be now, whole or not.
LastTickTimestampNow(ticks) == IF ticks = 0 THEN lastGlobalTickTimestamp ELSE now

\* The instant of the last tick after this many elapsed.
LastTickTimestamp(ticks) == lastGlobalTickTimestamp + ticks * ClockRate

\* updateTime: nothing while a tick is handled, which has done it already.
UpToDate(s) == IF tick THEN s ELSE Decremented(s, ElapsedTicks)

UpdateTime ==
  IF tick THEN UNCHANGED <<lastGlobalTickTimestamp, lastLocalTickTimestamp>>
  ELSE /\ lastGlobalTickTimestamp' = LastTickTimestamp(ElapsedTicks)
       /\ lastLocalTickTimestamp' =
            lastLocalTickTimestamp + ElapsedTicks * ClockRate

\* What getTime returns.
GetTime ==
  IF tick THEN lastLocalTickTimestamp
          ELSE lastLocalTickTimestamp + ElapsedTicks * ClockRate

-----------------------------------------------------------------------------
(* Subscription *)

\* Mutant: a new entry goes to the end of the list.
LowerBoundAtEnd(s, idleTicks) == Len(s) + 1

\* The first position whose countdown is not less, one past the end if none.
LowerBound(s, idleTicks) ==
  CHOOSE p \in 1 .. Len(s) + 1 :
    /\ \A i \in 1 .. p - 1 : s[i].ticks < idleTicks
    /\ p <= Len(s) => s[p].ticks >= idleTicks

WithListener(entry, listener) ==
  IF \E i \in 1 .. Len(entry.listeners) : entry.listeners[i] = listener
    THEN entry
    ELSE [entry EXCEPT !.listeners = Append(@, listener)]

\* addScheduledTickListener: join the tick if it is scheduled already, or else
\* insert a new one.
AddScheduledTickListener(s, listener, idleTicks, timestamp) ==
  LET p == LowerBound(s, idleTicks)
  IN  IF p <= Len(s) /\ s[p].ticks = idleTicks
        THEN [s EXCEPT ![p] = WithListener(@, listener)]
        ELSE [i \in 1 .. Len(s) + 1 |->
                IF i < p THEN s[i]
                ELSE IF i = p
                  THEN [ticks |-> idleTicks, timestamp |-> timestamp,
                        listeners |-> <<listener>>]
                  ELSE s[i - 1]]

\* subscribeTick.  scheduleTick counts from the last tick, so waiting for no
\* tick between two ticks would schedule an event in the past: the modules do
\* that only in initialize and on a tick.
SubscribeTick(listener, idleTicks) ==
  LET timestamp == LastTickTimestamp(IF tick THEN 0 ELSE ElapsedTicks)
                     + idleTicks * ClockRate
  IN  /\ now <= timestamp /\ timestamp <= Horizon
      /\ UpdateTime
      /\ scheduledTicks' =
           AddScheduledTickListener(UpToDate(scheduledTicks), listener,
                                    idleTicks, timestamp)

\* A listener subscribes on its own, in initialize or in an event.
Subscribe(listener, idleTicks) ==
  /\ ~tick
  /\ SubscribeTick(listener, idleTicks)
  /\ UNCHANGED <<now, tick, notifying>>

\* Somebody reads the clock.
ReadTime ==
  /\ ~tick
  /\ UpdateTime
  /\ scheduledTicks' = UpToDate(scheduledTicks)
  /\ UNCHANGED <<now, tick, notifying>>

-----------------------------------------------------------------------------
(* A scheduled tick *)

\* notifyNextTick removes the front entry, so that listeners can subscribe a
\* tick at this same instant.
WithoutNextTick(s) == Tail(s)

\* The self-message of the front entry is due: handleMessage up to the first
\* call of a listener.
HandleTick ==
  /\ ~tick
  /\ scheduledTicks # <<>>
  /\ Head(scheduledTicks).timestamp = now
  /\ LET elapsed == Head(scheduledTicks).ticks
     IN  /\ lastGlobalTickTimestamp' =
              (IF elapsed = 0 THEN lastGlobalTickTimestamp ELSE now)
         /\ lastLocalTickTimestamp' = lastLocalTickTimestamp + ClockRate * elapsed
         /\ scheduledTicks' =
              WithoutNextTick(Decremented(scheduledTicks, elapsed))
  /\ tick' = TRUE
  /\ notifying' = Head(scheduledTicks).listeners
  /\ UNCHANGED now

\* The next listener is called.  It may subscribe itself again.
NotifyListener ==
  /\ notifying # <<>>
  /\ notifying' = Tail(notifying)
  /\ \/ \E k \in IdleTicks : SubscribeTick(Head(notifying), k)
     \/ UNCHANGED <<lastGlobalTickTimestamp, lastLocalTickTimestamp,
                    scheduledTicks>>
  /\ UNCHANGED <<now, tick>>

EndTick ==
  /\ tick
  /\ notifying = <<>>
  /\ tick' = FALSE
  /\ UNCHANGED <<now, lastGlobalTickTimestamp, lastLocalTickTimestamp,
                 scheduledTicks, notifying>>

\* No self-message is due.
Elapse ==
  /\ ~tick
  /\ now < Horizon
  /\ \A i \in 1 .. Len(scheduledTicks) : scheduledTicks[i].timestamp # now
  /\ now' = now + 1
  /\ UNCHANGED <<lastGlobalTickTimestamp, lastLocalTickTimestamp,
                 scheduledTicks, tick, notifying>>

Next ==
  \/ HandleTick
  \/ NotifyListener
  \/ EndTick
  \/ Elapse
  \/ ReadTime
  \/ \E l \in Listener, k \in IdleTicks : Subscribe(l, k)

\* The event loop goes on; nobody has to subscribe or to read.
Spec ==
  /\ Init
  /\ [][Next]_vars
  /\ WF_vars(HandleTick \/ NotifyListener \/ EndTick \/ Elapse)

-----------------------------------------------------------------------------
(* Properties *)

\* handleMessage's assertion: the self-message that is due is the front
\* entry's, at most one is due, and none has been overtaken by time.
DueTickIsFront ==
  \A i \in 1 .. Len(scheduledTicks) :
    /\ scheduledTicks[i].timestamp >= now
    /\ (scheduledTicks[i].timestamp = now => i = 1)

ReadsWholeTicks == GetTime = (now \div ClockRate) * ClockRate

\* However seldom the clock is brought up to date, it reads the whole ticks
\* since the start, and every countdown agrees with the instant for which the
\* entry's message was scheduled.
CountdownsAgree ==
  /\ ReadsWholeTicks
  /\ \A i \in 1 .. Len(scheduledTicks) :
       scheduledTicks[i].timestamp =
         lastGlobalTickTimestamp + scheduledTicks[i].ticks * ClockRate

\* Who waits, and for which instant.
Pending ==
  {<<notifying[i], now>> : i \in 1 .. Len(notifying)} \cup
  UNION {{<<scheduledTicks[i].listeners[j], scheduledTicks[i].timestamp>> :
            j \in 1 .. Len(scheduledTicks[i].listeners)} :
           i \in 1 .. Len(scheduledTicks)}

Timer == INSTANCE TickTimer WITH pending <- Pending

\* The list of entries implements exact notification: every subscription is
\* notified once, at the instant of a tick, and time waits for that.
NotifiesOnTime == Timer!Spec

\* It is the tick that was asked for, counted from the last tick before the
\* call, and a subscription changes nobody else's.
SubscribesTheRightTick ==
  [][\A l \in Listener, k \in IdleTicks :
       Subscribe(l, k) => Timer!SubscribeTick(l, k)]_vars
=============================================================================
