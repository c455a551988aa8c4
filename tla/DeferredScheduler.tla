--------------------------- MODULE DeferredScheduler ---------------------------
(***************************************************************************)
(* The deferred-emission scheduler of the sender                           *)
(* (internal/sender/workers/scheduler.go): the callers of Enqueue, the     *)
(* caller of Close and the single consumer goroutine (loop), interleaved   *)
(* at every point where they touch shared state: the atomic flag, the      *)
(* mutex, the wake channel, the close channel and the drop counter.        *)
(*                                                                         *)
(* A payload stands for one call of Enqueue.  The counters are kept per    *)
(* payload: dropped[p] is how many times p's spans were added to           *)
(* s.dropped, and likewise sent (reporter.RecordTraces) and failed         *)
(* (reporter.RecordError), so a payload counted twice, or never, shows.    *)
(* Time is discrete, and a goroutine may be delayed arbitrarily at any     *)
(* step; only an export must end within ExportTimeout.                     *)
(***************************************************************************)
EXTENDS Naturals, FiniteSets

CONSTANTS
  Payload,        \* the deferred payloads, one call of Enqueue each
  None,           \* no payload
  Delays,         \* possible emit delays: positive, the others are sent at once
  MaxPending,     \* max_pending; 0: no limit
  DrainTimeout,   \* drain_timeout; 0: no deadline
  ExportTimeout,  \* deferredExportTimeout
  CallersWait,    \* TRUE: nobody calls Enqueue once Close is called, as in pool.Run
  MaxTime         \* bound of the model: due times and the clock stay in 0..MaxTime

ASSUME NoneAssumption == None \notin Payload

ASSUME DelaysAssumption == Delays \subseteq Nat \ {0}

ASSUME LimitsAssumption ==
  /\ MaxPending \in Nat
  /\ DrainTimeout \in Nat
  /\ ExportTimeout \in Nat
  /\ MaxTime \in Nat
  /\ CallersWait \in BOOLEAN

VARIABLES
  now,       \* the wall clock
  call,      \* [Payload -> where p's call of Enqueue is]
  sendAt,    \* [Payload -> when p is to be exported]
  seq,       \* s.seq
  seqOf,     \* [Payload -> the seq p was queued with, 0 before that]
  heap,      \* s.heap, as the set of queued payloads
  wake,      \* whether s.wake (capacity 1) holds a token
  closePc,   \* where the call of Close is
  reported,  \* [Payload -> dropped[p] when Close read the total]
  loopPc,    \* where the loop goroutine is
  firing,    \* the payload fire exports, or None
  fireBy,    \* when the context of that export expires
  timerAt,   \* when the loop's timer goes off
  armed,     \* the loop's closeCh is nil: it drains
  drainAt,   \* when drainDeadlineCh becomes ready, if armed and DrainTimeout > 0
  dropped, sent, failed

callVars == <<call, sendAt>>
queueVars == <<heap, seq, seqOf>>
closeVars == <<closePc, reported>>
loopVars == <<loopPc, firing, fireBy, timerAt, armed, drainAt>>
countVars == <<dropped, sent, failed>>
vars == <<now, callVars, queueVars, wake, closeVars, loopVars, countVars>>

CallStates == {"new", "called", "checked", "queued", "refusing", "accepted", "refused"}
CloseStates == {"open", "flagged", "signalled", "returned"}
LoopStates == {"top", "idle", "timed", "fire", "done"}

closed == closePc # "open"
closeChClosed == closePc \in {"signalled", "returned"}
loopDone == loopPc = "done"

\* Mutant: items due at the same time have no order.
Less_Ties(p, q) == sendAt[p] <= sendAt[q]

\* itemHeap.Less: the earlier due first, FIFO between equals.
Less(p, q) == \/ sendAt[p] < sendAt[q]
              \/ sendAt[p] = sendAt[q] /\ seqOf[p] < seqOf[q]

IsHead(p) == p \in heap /\ \A q \in heap \ {p} : Less(p, q)

Init ==
  /\ now = 0
  /\ call = [p \in Payload |-> "new"]
  /\ sendAt = [p \in Payload |-> 0]
  /\ heap = {} /\ seq = 0 /\ seqOf = [p \in Payload |-> 0]
  /\ wake = FALSE
  /\ closePc = "open" /\ reported = [p \in Payload |-> 0]
  /\ loopPc = "top" /\ firing = None /\ fireBy = 0 /\ timerAt = 0
  /\ armed = FALSE /\ drainAt = 0
  /\ dropped = [p \in Payload |-> 0]
  /\ sent = [p \in Payload |-> 0]
  /\ failed = [p \in Payload |-> 0]

\* An export holds its context's deadline, so time does not run past it.
Tick ==
  /\ now < MaxTime
  /\ firing # None => now < fireBy
  /\ now' = now + 1
  /\ UNCHANGED <<callVars, queueVars, wake, closeVars, loopVars, countVars>>

--------------------------------------------------------------------------------
(* enqueueDeferred and Enqueue *)

\* The worker computes the due time and calls Enqueue.
Call(p) ==
  /\ call[p] = "new"
  /\ CallersWait => ~closed
  /\ \E d \in Delays :
       /\ now + d <= MaxTime
       /\ sendAt' = [sendAt EXCEPT ![p] = now + d]
  /\ call' = [call EXCEPT ![p] = "called"]
  /\ UNCHANGED <<now, queueVars, wake, closeVars, loopVars, countVars>>

\* Mutant: what is refused after Close is not counted.
CheckClosed_Silent(p) ==
  /\ call[p] = "called"
  /\ call' = [call EXCEPT ![p] = IF closed THEN "refused" ELSE "checked"]
  /\ UNCHANGED <<now, sendAt, queueVars, wake, closeVars, loopVars, countVars>>

CheckClosed(p) ==
  /\ call[p] = "called"
  /\ call' = [call EXCEPT ![p] = IF closed THEN "refusing" ELSE "checked"]
  /\ UNCHANGED <<now, sendAt, queueVars, wake, closeVars, loopVars, countVars>>

QueueFull == MaxPending > 0 /\ Cardinality(heap) >= MaxPending

\* Mutant: the loop is woken only by an item that finds the queue empty.
Push_WakeIfEmpty(p) ==
  /\ call[p] = "checked"
  /\ ~QueueFull
  /\ seq' = seq + 1
  /\ seqOf' = [seqOf EXCEPT ![p] = seq + 1]
  /\ heap' = heap \cup {p}
  /\ call' = [call EXCEPT ![p] = IF heap = {} THEN "queued" ELSE "accepted"]
  /\ UNCHANGED <<now, sendAt, wake, closeVars, loopVars, countVars>>

\* The critical section: push the item, or find the queue full.
Push(p) ==
  /\ call[p] = "checked"
  /\ ~QueueFull
  /\ seq' = seq + 1
  /\ seqOf' = [seqOf EXCEPT ![p] = seq + 1]
  /\ heap' = heap \cup {p}
  /\ call' = [call EXCEPT ![p] = "queued"]
  /\ UNCHANGED <<now, sendAt, wake, closeVars, loopVars, countVars>>

FindFull(p) ==
  /\ call[p] = "checked"
  /\ QueueFull
  /\ call' = [call EXCEPT ![p] = "refusing"]
  /\ UNCHANGED <<now, sendAt, queueVars, wake, closeVars, loopVars, countVars>>

\* Mutant: the token is lost.
SendWake_Lost(p) ==
  /\ call[p] = "queued"
  /\ call' = [call EXCEPT ![p] = "accepted"]
  /\ UNCHANGED <<now, sendAt, queueVars, wake, closeVars, loopVars, countVars>>

\* The non-blocking send on wake, after the mutex is released.
SendWake(p) ==
  /\ call[p] = "queued"
  /\ wake' = TRUE
  /\ call' = [call EXCEPT ![p] = "accepted"]
  /\ UNCHANGED <<now, sendAt, queueVars, closeVars, loopVars, countVars>>

CountRefused(p) ==
  /\ call[p] = "refusing"
  /\ dropped' = [dropped EXCEPT ![p] = @ + 1]
  /\ call' = [call EXCEPT ![p] = "refused"]
  /\ UNCHANGED <<now, sendAt, queueVars, wake, closeVars, loopVars, sent, failed>>

InCall(p) == call[p] \in {"called", "checked", "queued", "refusing"}

EnqueueStep(p) == \/ CheckClosed(p) \/ Push(p) \/ FindFull(p)
                  \/ SendWake(p) \/ CountRefused(p)

--------------------------------------------------------------------------------
(* Close *)

\* pool.Run calls Close after wg.Wait, when no worker is left.
SetClosed ==
  /\ closePc = "open"
  /\ CallersWait => \A p \in Payload : ~InCall(p)
  /\ closePc' = "flagged"
  /\ UNCHANGED <<now, callVars, queueVars, wake, reported, loopVars, countVars>>

SignalClose ==
  /\ closePc = "flagged"
  /\ closePc' = "signalled"
  /\ UNCHANGED <<now, callVars, queueVars, wake, reported, loopVars, countVars>>

\* Mutant: Close does not wait for the loop.
CloseReturn_NoWait ==
  /\ closePc = "signalled"
  /\ closePc' = "returned"
  /\ reported' = dropped
  /\ UNCHANGED <<now, callVars, queueVars, wake, loopVars, countVars>>

CloseReturn ==
  /\ closePc = "signalled"
  /\ loopDone
  /\ closePc' = "returned"
  /\ reported' = dropped
  /\ UNCHANGED <<now, callVars, queueVars, wake, loopVars, countVars>>

--------------------------------------------------------------------------------
(* loop *)

LoopExit ==
  /\ loopPc = "top" /\ heap = {} /\ armed
  /\ loopPc' = "done"
  /\ UNCHANGED <<now, callVars, queueVars, wake, closeVars,
                 firing, fireBy, timerAt, armed, drainAt, countVars>>

LoopIdle ==
  /\ loopPc = "top" /\ heap = {} /\ ~armed
  /\ loopPc' = "idle"
  /\ UNCHANGED <<now, callVars, queueVars, wake, closeVars,
                 firing, fireBy, timerAt, armed, drainAt, countVars>>

\* Pop a matured head and start its export.
LoopPop(p) ==
  /\ loopPc = "top" /\ IsHead(p)
  /\ sendAt[p] <= now
  /\ heap' = heap \ {p}
  /\ loopPc' = "fire" /\ firing' = p /\ fireBy' = now + ExportTimeout
  /\ UNCHANGED <<now, callVars, seq, seqOf, wake, closeVars,
                 timerAt, armed, drainAt, countVars>>

\* Mutant: the time to wait is taken for the due time, not for the difference.
LoopSleep_Absolute(p) ==
  /\ loopPc = "top" /\ IsHead(p)
  /\ sendAt[p] > now
  /\ loopPc' = "timed" /\ timerAt' = now + sendAt[p]
  /\ UNCHANGED <<now, callVars, queueVars, wake, closeVars,
                 firing, fireBy, armed, drainAt, countVars>>

LoopSleep(p) ==
  /\ loopPc = "top" /\ IsHead(p)
  /\ sendAt[p] > now
  /\ loopPc' = "timed" /\ timerAt' = sendAt[p]
  /\ UNCHANGED <<now, callVars, queueVars, wake, closeVars,
                 firing, fireBy, armed, drainAt, countVars>>

\* The cases of the two selects.  The first select's drainDeadlineCh case never
\* runs: there the deadline is set only when closeCh is nil, and then loop returns.
Waiting == loopPc \in {"idle", "timed"}

TimerFires ==
  /\ loopPc = "timed"
  /\ now >= timerAt
  /\ loopPc' = "top"
  /\ UNCHANGED <<now, callVars, queueVars, wake, closeVars,
                 firing, fireBy, timerAt, armed, drainAt, countVars>>

ReceiveWake ==
  /\ Waiting
  /\ wake
  /\ wake' = FALSE
  /\ loopPc' = "top"
  /\ UNCHANGED <<now, callVars, queueVars, closeVars,
                 firing, fireBy, timerAt, armed, drainAt, countVars>>

\* Mutant: closeCh is not set to nil.
Arm_Forgotten ==
  /\ Waiting
  /\ ~armed /\ closeChClosed
  /\ drainAt' = now + DrainTimeout
  /\ loopPc' = "top"
  /\ UNCHANGED <<now, callVars, queueVars, wake, closeVars,
                 firing, fireBy, timerAt, armed, countVars>>

Arm ==
  /\ Waiting
  /\ ~armed /\ closeChClosed
  /\ armed' = TRUE
  /\ drainAt' = now + DrainTimeout
  /\ loopPc' = "top"
  /\ UNCHANGED <<now, callVars, queueVars, wake, closeVars,
                 firing, fireBy, timerAt, countVars>>

\* Mutant: what the drain deadline discards is not counted.
DrainExpires_Uncounted ==
  /\ loopPc = "timed"
  /\ armed /\ DrainTimeout > 0 /\ now >= drainAt
  /\ heap' = {}
  /\ loopPc' = "done"
  /\ UNCHANGED <<now, callVars, seq, seqOf, wake, closeVars,
                 firing, fireBy, timerAt, armed, drainAt, countVars>>

\* The drain deadline, with dropRemaining and the return it leads to.
DrainExpires ==
  /\ loopPc = "timed"
  /\ armed /\ DrainTimeout > 0 /\ now >= drainAt
  /\ heap' = {}
  /\ dropped' = [p \in Payload |-> IF p \in heap THEN dropped[p] + 1 ELSE dropped[p]]
  /\ loopPc' = "done"
  /\ UNCHANGED <<now, callVars, seq, seqOf, wake, closeVars,
                 firing, fireBy, timerAt, armed, drainAt, sent, failed>>

\* fire returns: the limiter or the exporter failed, or the export succeeded.
FireSent ==
  /\ loopPc = "fire"
  /\ sent' = [sent EXCEPT ![firing] = @ + 1]
  /\ loopPc' = "top" /\ firing' = None
  /\ UNCHANGED <<now, callVars, queueVars, wake, closeVars,
                 fireBy, timerAt, armed, drainAt, dropped, failed>>

FireFailed ==
  /\ loopPc = "fire"
  /\ failed' = [failed EXCEPT ![firing] = @ + 1]
  /\ loopPc' = "top" /\ firing' = None
  /\ UNCHANGED <<now, callVars, queueVars, wake, closeVars,
                 fireBy, timerAt, armed, drainAt, dropped, sent>>

LoopStep ==
  \/ LoopExit \/ LoopIdle
  \/ \E p \in Payload : LoopPop(p) \/ LoopSleep(p)
  \/ TimerFires \/ ReceiveWake \/ Arm \/ DrainExpires
  \/ FireSent \/ FireFailed

--------------------------------------------------------------------------------
\* The process is over: every call has returned and so has Close.
Terminated ==
  /\ closePc = "returned"
  /\ \A p \in Payload : ~InCall(p)
  /\ UNCHANGED vars

Next ==
  \/ Tick
  \/ \E p \in Payload : Call(p) \/ EnqueueStep(p)
  \/ SetClosed \/ SignalClose \/ CloseReturn
  \/ LoopStep
  \/ Terminated

Spec == Init /\ [][Next]_vars

\* Time passes and the Go scheduler runs every goroutine that can run.  Nobody
\* is obliged to call Enqueue or Close.
Fairness ==
  /\ WF_vars(Tick)
  /\ WF_vars(LoopStep)
  /\ \A p \in Payload : WF_vars(EnqueueStep(p))
  /\ WF_vars(SignalClose) /\ WF_vars(CloseReturn)

FairSpec == Spec /\ Fairness
--------------------------------------------------------------------------------
TypeOK ==
  /\ now \in 0..MaxTime
  /\ call \in [Payload -> CallStates]
  /\ sendAt \in [Payload -> 0..MaxTime]
  /\ heap \in SUBSET Payload
  /\ seq \in Nat
  /\ seqOf \in [Payload -> Nat]
  /\ wake \in BOOLEAN
  /\ closePc \in CloseStates
  /\ reported \in [Payload -> Nat]
  /\ loopPc \in LoopStates
  /\ firing \in Payload \cup {None}
  /\ fireBy \in Nat
  /\ timerAt \in 0..MaxTime
  /\ armed \in BOOLEAN
  /\ drainAt \in Nat
  /\ dropped \in [Payload -> Nat]
  /\ sent \in [Payload -> Nat]
  /\ failed \in [Payload -> Nat]

\* A token is in the wake channel or a caller of Enqueue is about to put one there.
WakeComing == wake \/ \E p \in Payload : call[p] = "queued"

\* The loop never sleeps past the due time of a queued payload: while it waits
\* without a timer nothing is queued, and while it waits on a timer nothing queued
\* is due earlier, unless the token that wakes it is there or on its way.  This is
\* what the send on s.wake after the unlock is for (scheduler.go, Enqueue).
NoLostWakeup ==
  /\ loopPc = "idle" /\ heap # {} => WakeComing
  /\ loopPc = "timed" => (\A p \in heap : timerAt <= sendAt[p]) \/ WakeComing

\* Where a payload handed to Enqueue is while its fate is open.
Undecided(p) == call[p] \in {"new", "called", "checked", "refusing"}
Open(p) == Undecided(p) \/ p \in heap \/ p = firing

Settled(p) == dropped[p] + sent[p] + failed[p] = 1

\* Every payload is counted exactly once: as long as its fate is open it is in one
\* place only and in no counter, and afterwards it is in exactly one of the dropped
\* spans, the traces sent and the errors, whichever way the calls, the loop and the
\* drain interleave (Enqueue, fire and dropRemaining).
Ledger ==
  \A p \in Payload :
    /\ Open(p) => dropped[p] + sent[p] + failed[p] = 0
    /\ ~Open(p) => Settled(p)
    /\ ~(p \in heap /\ p = firing)
    /\ Undecided(p) => p \notin heap /\ p # firing

\* When Close has returned to a caller that let every Enqueue return first, as
\* pool.Run does with wg.Wait, each payload handed over has been sent, has failed or
\* was dropped, and the total Close returned counts every one dropped: pool.Run may
\* close the exporter and report the loss.
NothingLeftBehind ==
  CallersWait /\ closePc = "returned" =>
    /\ \A p \in Payload : call[p] # "new" => Settled(p)
    /\ reported = dropped

\* The promise of DeferredDelivery, for callers that obey "Callers must not Enqueue
\* after Close": refusal only at the limit, one export at a time, in due order, never
\* early, no discard before the drain deadline, nothing pending once Close returned.
Status(p) ==
  IF p \in heap THEN "queued"
  ELSE IF p = firing THEN "exporting"
  ELSE IF call[p] = "refusing" \/ dropped[p] > 0 THEN "dropped"
  ELSE IF sent[p] > 0 THEN "sent"
  ELSE IF failed[p] > 0 THEN "failed"
  ELSE "new"

Phase == IF closePc = "returned" THEN "down"
         ELSE IF armed THEN "draining"
         ELSE IF closed THEN "closing"
         ELSE "open"

Delivery == INSTANCE DeferredDelivery WITH
  clock <- now,
  status <- [p \in Payload |-> Status(p)],
  due <- [p \in Payload |-> IF seqOf[p] = 0 THEN 0 ELSE sendAt[p]],
  order <- seqOf,
  accepted <- seq,
  phase <- Phase,
  deadline <- drainAt

ImplementsDelivery == Delivery!Spec

\* Close always returns: the loop leaves its select for the closed channel, and
\* then empties the queue or reaches the drain deadline (Close, loop).
CloseReturns == closed ~> closePc = "returned"

\* A payload accepted before Close was called is settled in the end, whether or not
\* Close is called later, and even if other callers break the rule and enqueue while
\* Close runs.
AcceptedIsSettled ==
  \A p \in Payload : (call[p] = "accepted" /\ ~closed) ~> Settled(p)

\* "they still drain on their own schedule, bounded by drainTimeout"
\* (scheduler.go, deferredScheduler): no export starts after the drain deadline.
DrainBounded ==
  [][firing = None /\ firing' # None /\ armed /\ DrainTimeout > 0
       => now <= drainAt]_vars
================================================================================
