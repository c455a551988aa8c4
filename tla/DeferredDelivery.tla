--------------------------- MODULE DeferredDelivery ---------------------------
(***************************************************************************)
(* What the sender's deferred-emission scheduler promises its callers,     *)
(* without locks, channels or timers.  A payload that is handed over is    *)
(* refused only when the pending queue is full.  Accepted payloads are     *)
(* exported one at a time, never before they are due, the earliest due     *)
(* first and in order of acceptance between equals, each at most once.     *)
(* While the scheduler drains, pending payloads may be discarded, but not  *)
(* before the drain deadline, and nothing is left behind once it is down.  *)
(***************************************************************************)
EXTENDS Naturals, FiniteSets

CONSTANTS Payload,       \* the deferred payloads
          MaxPending,    \* at most so many are pending at once; 0: no limit
          DrainTimeout,  \* the least time draining lasts before a discard; 0: none
          MaxTime        \* due times and the clock stay in 0..MaxTime

VARIABLES clock,
          status,    \* where each payload is in its life
          due,       \* when an accepted payload becomes due
          order,     \* its number in the order of acceptance
          accepted,  \* how many have been accepted
          phase,     \* of the scheduler
          deadline   \* no discard before this time

vars == <<clock, status, due, order, accepted, phase, deadline>>

Pending == {p \in Payload : status[p] = "queued"}

Full == MaxPending > 0 /\ Cardinality(Pending) >= MaxPending

Idle == \A p \in Payload : status[p] # "exporting"

Init ==
  /\ clock = 0
  /\ status = [p \in Payload |-> "new"]
  /\ due = [p \in Payload |-> 0]
  /\ order = [p \in Payload |-> 0]
  /\ accepted = 0
  /\ phase = "open"
  /\ deadline = 0

Pass ==
  /\ clock < MaxTime
  /\ clock' = clock + 1
  /\ UNCHANGED <<status, due, order, accepted, phase, deadline>>

Accept(p) ==
  /\ phase = "open"
  /\ status[p] = "new"
  /\ ~Full
  /\ status' = [status EXCEPT ![p] = "queued"]
  /\ \E t \in 0..MaxTime : due' = [due EXCEPT ![p] = t]
  /\ accepted' = accepted + 1
  /\ order' = [order EXCEPT ![p] = accepted + 1]
  /\ UNCHANGED <<clock, phase, deadline>>

Refuse(p) ==
  /\ phase = "open"
  /\ status[p] = "new"
  /\ Full
  /\ status' = [status EXCEPT ![p] = "dropped"]
  /\ UNCHANGED <<clock, due, order, accepted, phase, deadline>>

Precedes(p, q) == \/ due[p] < due[q]
                  \/ due[p] = due[q] /\ order[p] <= order[q]

Begin(p) ==
  /\ p \in Pending
  /\ Idle
  /\ due[p] <= clock
  /\ \A q \in Pending : Precedes(p, q)
  /\ status' = [status EXCEPT ![p] = "exporting"]
  /\ UNCHANGED <<clock, due, order, accepted, phase, deadline>>

Finish(p) ==
  /\ status[p] = "exporting"
  /\ \E s \in {"sent", "failed"} : status' = [status EXCEPT ![p] = s]
  /\ UNCHANGED <<clock, due, order, accepted, phase, deadline>>

StartClosing ==
  /\ phase = "open"
  /\ phase' = "closing"
  /\ UNCHANGED <<clock, status, due, order, accepted, deadline>>

StartDraining ==
  /\ phase = "closing"
  /\ phase' = "draining"
  /\ deadline' = clock + DrainTimeout
  /\ UNCHANGED <<clock, status, due, order, accepted>>

Discard ==
  /\ phase = "draining"
  /\ DrainTimeout > 0 /\ clock >= deadline
  /\ Idle
  /\ status' = [p \in Payload |-> IF p \in Pending THEN "dropped" ELSE status[p]]
  /\ UNCHANGED <<clock, due, order, accepted, phase, deadline>>

GoDown ==
  /\ phase = "draining"
  /\ Idle /\ Pending = {}
  /\ phase' = "down"
  /\ UNCHANGED <<clock, status, due, order, accepted, deadline>>

Next ==
  \/ Pass
  \/ \E p \in Payload : Accept(p) \/ Refuse(p) \/ Begin(p) \/ Finish(p)
  \/ StartClosing \/ StartDraining \/ Discard \/ GoDown

Spec == Init /\ [][Next]_vars
================================================================================
