--------------------------- MODULE WorkerDistribution ---------------------------
(* How the workers are divided among the signals: calculateWorkerDistribution      *)
(* (internal/sender/workers/pool.go).  `events' has the number of events of each   *)
(* signal's templates, zero without templates.                                     *)
EXTENDS Integers, FiniteSetsExt, Functions

Signal == {"traces", "metrics", "logs"}

ActiveSignals(events) == {s \in Signal : events[s] > 0}
TotalEvents(events) == SumFunction(events)

\* The types that get what the roundings left, first match first.
Largest(events) ==
  CASE events["traces"] >= events["metrics"] /\ events["traces"] >= events["logs"] -> "traces"
    [] events["metrics"] >= events["logs"] /\ events["traces"] < Max({events["metrics"], events["logs"]}) -> "metrics"
    [] OTHER -> "logs"

\* Mutant: a share rounded down, and nothing else.
Share_RoundedDown(n, events, s) == (n * events[s]) \div TotalEvents(events)

\* Mutant: a share rounded up.
Share_RoundedUp(n, events, s) ==
  (n * events[s] + TotalEvents(events) - 1) \div TotalEvents(events)

\* A share rounded down (floats do it exactly for counts below 2^53), but at least one
\* worker for a type that has events.
Share(n, events, s) ==
  LET exact == (n * events[s]) \div TotalEvents(events)
  IN IF s \in ActiveSignals(events) /\ exact = 0 THEN 1 ELSE exact

MinWorkers(n, events) ==
  LET active == Cardinality(ActiveSignals(events))
  IN IF active < 3 /\ n >= 3 THEN 3 ELSE active

Distribution(n, events) ==
  LET shares == [s \in Signal |-> Share(n, events, s)]
      assigned == SumFunction(shares)
  IN CASE TotalEvents(events) = 0 -> [s \in Signal |-> IF s = "traces" THEN n ELSE 0]
       [] TotalEvents(events) > 0 /\ n < MinWorkers(n, events) ->
            [s \in Signal |-> IF s \in ActiveSignals(events) THEN 1 ELSE 0]
       [] OTHER ->
            [shares EXCEPT ![Largest(events)] = @ + (IF n > assigned THEN n - assigned ELSE 0)]
================================================================================
