------------------------------ MODULE RateLimiter ------------------------------
(***************************************************************************)
(* The limiter all workers and the deferred scheduler share                *)
(* (internal/sender/ratelimit/limiter.go), on top of the token bucket of   *)
(* golang.org/x/time/rate, which is external: its reservations are         *)
(* modelled as Wait uses them.  The unit of time is the time in which one  *)
(* token arrives, so a second is EventsPerSecond units and a bucket that   *)
(* lacks k tokens is a wait of k units.  Durations are exact here; the     *)
(* library's are rounded to nanoseconds.                                   *)
(***************************************************************************)
EXTENDS Integers, FiniteSets

CONSTANTS
  Worker,           \* workers: they call Wait under the send context
  Scheduler,        \* the deferred scheduler: each call has a context of its own
  CallTimeout,      \* deferredExportTimeout, how long such a context lasts
  Sizes,            \* the numbers of events they ask for
  EventsPerSecond,  \* rate_limit.events_per_second; not positive: no limit
  MaxCalls,         \* bound of the model: calls of Wait by one caller
  MaxTime           \* bound of the model: the clock

Caller == Worker \cup {Scheduler}

ASSUME CallersAssumption == Scheduler \notin Worker /\ IsFiniteSet(Worker)

ASSUME SizesAssumption == Sizes \subseteq Nat

ASSUME RateAssumption == 
  /\ EventsPerSecond \in Int /\ CallTimeout \in Nat
  /\ MaxCalls \in Nat /\ MaxTime \in Nat

VARIABLES
  now,
  tokens,     \* in the bucket; negative when promised to reservations
  lastEvent,  \* the latest time a reservation may act
  asked,      \* [Caller -> the events it waits with, 0 when it does not wait]
  actAt,      \* [Caller -> when its reservation may act]
  ctxBy,      \* when the context of the scheduler's call expires
  sendDone,   \* the send context is cancelled
  calls,      \* [Caller -> calls of Wait so far]
  granted,    \* events let through on a reservation
  bypassed    \* events let through without one

vars == <<now, tokens, lastEvent, asked, actAt, ctxBy, sendDone,
          calls, granted, bypassed>>

enabled == EventsPerSecond > 0

\* NewLimiter: the bucket holds two seconds' worth.
Burst == 2 * EventsPerSecond

Least(a, b) == IF a <= b THEN a ELSE b

Waiting(c) == asked[c] > 0

Init ==
  /\ now = 0
  /\ tokens = IF enabled THEN Burst ELSE 0
  /\ lastEvent = 0
  /\ asked = [c \in Caller |-> 0]
  /\ actAt = [c \in Caller |-> 0]
  /\ ctxBy = 0 /\ sendDone = FALSE
  /\ calls = [c \in Caller |-> 0]
  /\ granted = 0 /\ bypassed = 0

\* Mutant: the bucket has no bound.
Tick_Unbounded ==
  /\ now < MaxTime
  /\ now' = now + 1
  /\ tokens' = IF enabled THEN tokens + 1 ELSE tokens
  /\ UNCHANGED <<lastEvent, asked, actAt, ctxBy, sendDone, calls, granted, bypassed>>

Tick ==
  /\ now < MaxTime
  /\ now' = now + 1
  /\ tokens' = IF enabled THEN Least(Burst, tokens + 1) ELSE tokens
  /\ UNCHANGED <<lastEvent, asked, actAt, ctxBy, sendDone, calls, granted, bypassed>>

\* A call of Wait and its count.  A worker whose context is cancelled gets an error from
\* this call or from the export after it, returns, and does not call again.
CallWait(c) ==
  /\ ~Waiting(c) /\ calls[c] < MaxCalls
  /\ calls' = [calls EXCEPT ![c] = IF c \in Worker /\ sendDone THEN MaxCalls ELSE @ + 1]
  /\ ctxBy' = IF c = Scheduler THEN now + CallTimeout ELSE ctxBy
  /\ UNCHANGED sendDone

\* There is no limit, or the reservation fails, as one above the burst does: Wait
\* returns nil at once.
Skip(c, n) ==
  /\ CallWait(c)
  /\ ~enabled \/ n > Burst
  /\ bypassed' = bypassed + n
  /\ UNCHANGED <<now, tokens, lastEvent, asked, actAt, granted>>

\* The tokens are there.
PassAtOnce(c, n) ==
  /\ CallWait(c)
  /\ enabled /\ n <= Burst /\ n <= tokens
  /\ tokens' = tokens - n
  /\ lastEvent' = now
  /\ granted' = granted + n
  /\ UNCHANGED <<now, asked, actAt, bypassed>>

\* The tokens are reserved, and Wait sleeps until the bucket will have had them.
StartWait(c, n) ==
  /\ CallWait(c)
  /\ enabled /\ n <= Burst /\ n > tokens /\ n > 0
  /\ now + (n - tokens) <= MaxTime
  /\ tokens' = tokens - n
  /\ lastEvent' = now + (n - tokens)
  /\ asked' = [asked EXCEPT ![c] = n]
  /\ actAt' = [actAt EXCEPT ![c] = now + (n - tokens)]
  /\ UNCHANGED <<now, granted, bypassed>>

\* Mutant: the sleep is cut short.
WaitOver_Early(c) ==
  /\ Waiting(c)
  /\ now + 1 >= actAt[c]
  /\ granted' = granted + asked[c]
  /\ asked' = [asked EXCEPT ![c] = 0]
  /\ actAt' = [actAt EXCEPT ![c] = 0]
  /\ UNCHANGED <<now, tokens, lastEvent, ctxBy, sendDone, calls, bypassed>>

WaitOver(c) ==
  /\ Waiting(c)
  /\ now >= actAt[c]
  /\ granted' = granted + asked[c]
  /\ asked' = [asked EXCEPT ![c] = 0]
  /\ actAt' = [actAt EXCEPT ![c] = 0]
  /\ UNCHANGED <<now, tokens, lastEvent, ctxBy, sendDone, calls, bypassed>>

\* reservation.Cancel: what later reservations were promised is not given back.
Restored(c) == asked[c] - (lastEvent - actAt[c])

ctxDone(c) == IF c = Scheduler THEN now >= ctxBy ELSE sendDone

\* The caller's context ends first.
CancelWait(c) ==
  /\ Waiting(c) /\ ctxDone(c)
  /\ IF actAt[c] < now \/ Restored(c) <= 0
     THEN UNCHANGED <<tokens, lastEvent>>
     ELSE /\ tokens' = Least(Burst, tokens + Restored(c))
          /\ lastEvent' = IF actAt[c] = lastEvent /\ actAt[c] - asked[c] >= now
                          THEN actAt[c] - asked[c]
                          ELSE lastEvent
  /\ asked' = [asked EXCEPT ![c] = 0]
  /\ actAt' = [actAt EXCEPT ![c] = 0]
  /\ calls' = [calls EXCEPT ![c] = IF c \in Worker THEN MaxCalls ELSE @]
  /\ UNCHANGED <<now, ctxBy, sendDone, granted, bypassed>>

\* An interrupt or the end of the duration.
CancelSending ==
  /\ ~sendDone
  /\ sendDone' = TRUE
  /\ UNCHANGED <<now, tokens, lastEvent, asked, actAt, ctxBy, calls, granted, bypassed>>

\* Nobody calls any more and the clock has reached its bound.
Terminated ==
  /\ now = MaxTime
  /\ \A c \in Caller : ~Waiting(c)
  /\ UNCHANGED vars

Next ==
  \/ Tick \/ CancelSending
  \/ \E c \in Caller :
       \/ \E n \in Sizes : Skip(c, n) \/ PassAtOnce(c, n) \/ StartWait(c, n)
       \/ WaitOver(c) \/ CancelWait(c)
  \/ Terminated

Spec == Init /\ [][Next]_vars

--------------------------------------------------------------------------------
TypeOK ==
  /\ now \in 0..MaxTime
  /\ tokens \in Int /\ (enabled => tokens <= Burst)
  /\ lastEvent \in Nat
  /\ asked \in [Caller -> Nat]
  /\ actAt \in [Caller -> Nat]
  /\ ctxBy \in Nat /\ sendDone \in BOOLEAN
  /\ calls \in [Caller -> 0..MaxCalls]
  /\ granted \in Nat /\ bypassed \in Nat

\* The events, one by one, of the reservations that may act by time t.
DueBy(t) == {e \in Caller \X (1..Burst) : e[2] <= asked[e[1]] /\ actAt[e[1]] <= t}

\* The limiter keeps the rate while the run sends, however calls, sleeps and late calls
\* that time out interleave: by any time, now or later, the events let through on a
\* reservation and those that may be by then are no more than the burst and one event
\* per unit of time (Wait, NewLimiter).
RateKept ==
  enabled /\ ~sendDone =>
    \A t \in now..(now + Burst * Cardinality(Caller)) :
      granted + Cardinality(DueBy(t)) <= Burst + t

\* "Rate limit: Hard cap on events/second" (ARCHITECTURE.md, Throughput Optimization):
\* all events sent, with the burst allowed.
HardCap == enabled => granted + bypassed <= Burst + now
================================================================================
