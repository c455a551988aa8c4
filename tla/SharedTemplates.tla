----------------------------- MODULE SharedTemplates -----------------------------
(***************************************************************************)
(* The metrics and logs workers (internal/sender/workers/pool.go) and the  *)
(* timestamps they inject (internal/sender/transformer/timestamps.go).     *)
(* All workers of a signal send the same loaded template.  An iteration    *)
(* clones it, stamps it, waits for the limiter and exports it, which reads *)
(* it point by point.  A clone of the logs has records of its own; a clone *)
(* of the metrics has the data points of the template itself.              *)
(*                                                                         *)
(* Reads and writes of one data point are atomic, as they are in a build   *)
(* for a 64-bit machine; the workers' steps are otherwise interleaved.     *)
(***************************************************************************)
EXTENDS Integers, Sequences

CONSTANTS
  MetricsWorker, LogsWorker,   \* disjoint sets of goroutines
  Points,        \* data points of the metric template, records of the log template
  Metric,        \* [1..Points -> the metric of a data point]: they stand in this order
  Multiplier,    \* sending.multiplier; 0: no limit
  MaxRounds,     \* bound of the model: iterations of a worker without a limit
  JitterMs, BackdateMs,
  MaxTime        \* bound of the model: the clock

Worker == MetricsWorker \cup LogsWorker

VARIABLES
  clock, ctxDone,
  template,     \* [1..Points -> the time of a data point]: one for all metrics workers
  pc, iteration,
  copy,         \* [Worker -> the times of the records of a log worker's clone]
  k,            \* [Worker -> points stamped or marshalled so far]
  instant,      \* [Worker -> the time read for the metric, or for the logs]
  stamped,      \* [Worker -> the times this iteration has written]
  wire,         \* [Worker -> the times the request has on the wire]
  recorded, errors

vars == <<clock, ctxDone, template, pc, iteration, copy, k, instant, stamped, wire, recorded, errors>>

Unstamped == [i \in 1..Points |-> 0]

Init ==
  /\ clock = 1 /\ ctxDone = FALSE
  /\ template = Unstamped
  /\ pc = [w \in Worker |-> "check"]
  /\ iteration = [w \in Worker |-> 0]
  /\ copy = [w \in Worker |-> Unstamped]
  /\ k = [w \in Worker |-> 0]
  /\ instant = [w \in Worker |-> 0]
  /\ stamped = [w \in Worker |-> <<>>]
  /\ wire = [w \in Worker |-> <<>>]
  /\ recorded = [w \in Worker |-> 0]
  /\ errors = [w \in Worker |-> 0]

Goto(w, label) == pc' = [pc EXCEPT ![w] = label]

Tick == clock < MaxTime /\ clock' = clock + 1
        /\ UNCHANGED <<ctxDone, template, pc, iteration, copy, k, instant, stamped, wire, recorded, errors>>

Cancel == ~ctxDone /\ ctxDone' = TRUE
          /\ UNCHANGED <<clock, template, pc, iteration, copy, k, instant, stamped, wire, recorded, errors>>

\* The returns at the top of the loop.
Quit(w) ==
  /\ pc[w] = "check"
  /\ ctxDone \/ (Multiplier > 0 /\ iteration[w] >= Multiplier)
  /\ Goto(w, "returned")
  /\ UNCHANGED <<clock, ctxDone, template, iteration, copy, k, instant, stamped, wire, recorded, errors>>

\* Only the clone of the logs has something of its own to stamp.
Clone(w) ==
  /\ pc[w] = "check" /\ ~ctxDone
  /\ Multiplier > 0 => iteration[w] < Multiplier
  /\ iteration[w] < MaxRounds
  /\ IF w \in LogsWorker THEN copy' = [copy EXCEPT ![w] = Unstamped] ELSE UNCHANGED copy
  /\ k' = [k EXCEPT ![w] = 0]
  /\ stamped' = [stamped EXCEPT ![w] = <<>>]
  /\ wire' = [wire EXCEPT ![w] = <<>>]
  /\ Goto(w, IF Points = 0 THEN "limit" ELSE "read")
  /\ UNCHANGED <<clock, ctxDone, template, iteration, instant, recorded, errors>>

\* A configured jitter of n milliseconds adds 0 to n-1.
Jitter == IF JitterMs > 0 THEN 0..(JitterMs - 1) ELSE {0}

\* The clock is read for each metric and jitters as a whole; it is read once for the logs.
ReadClock(w) ==
  /\ pc[w] = "read"
  /\ \E j \in (IF w \in MetricsWorker THEN Jitter ELSE {0}) :
       instant' = [instant EXCEPT ![w] = clock - BackdateMs + j]
  /\ Goto(w, "stamp")
  /\ UNCHANGED <<clock, ctxDone, template, iteration, copy, k, stamped, wire, recorded, errors>>

NextMetric(i) == i = Points \/ Metric[i] # Metric[i + 1]

\* A log record jitters by itself.
Stamp(w) ==
  /\ pc[w] = "stamp"
  /\ \E j \in (IF w \in LogsWorker THEN Jitter ELSE {0}) :
       LET i == k[w] + 1
           time == instant[w] + j
       IN /\ IF w \in MetricsWorker
             THEN template' = [template EXCEPT ![i] = time] /\ UNCHANGED copy
             ELSE copy' = [copy EXCEPT ![w][i] = time] /\ UNCHANGED template
          /\ stamped' = [stamped EXCEPT ![w] = Append(@, time)]
          /\ k' = [k EXCEPT ![w] = IF i = Points THEN 0 ELSE i]
          /\ Goto(w, IF i = Points THEN "limit"
                     ELSE IF w \in MetricsWorker /\ NextMetric(i) THEN "read" ELSE "stamp")
  /\ UNCHANGED <<clock, ctxDone, iteration, instant, wire, recorded, errors>>

\* Wait lets the request through, now or later, unless the context is done.
PassLimiter(w) ==
  /\ pc[w] = "limit"
  /\ Goto(w, IF Points = 0 THEN "sent" ELSE "marshal")
  /\ UNCHANGED <<clock, ctxDone, template, iteration, copy, k, instant, stamped, wire, recorded, errors>>

\* gRPC marshals the request inside Export.
Marshal(w) ==
  /\ pc[w] = "marshal"
  /\ LET i == k[w] + 1
         time == IF w \in MetricsWorker THEN template[i] ELSE copy[w][i]
     IN /\ wire' = [wire EXCEPT ![w] = Append(@, time)]
        /\ k' = [k EXCEPT ![w] = i]
        /\ Goto(w, IF i = Points THEN "sent" ELSE "marshal")
  /\ UNCHANGED <<clock, ctxDone, template, iteration, copy, instant, stamped, recorded, errors>>

ExportSucceeds(w) ==
  /\ pc[w] = "sent"
  /\ recorded' = [recorded EXCEPT ![w] = @ + Points]
  /\ iteration' = [iteration EXCEPT ![w] = @ + 1]
  /\ Goto(w, "check")
  /\ UNCHANGED <<clock, ctxDone, template, copy, k, instant, stamped, wire, errors>>

\* An error of the limiter, of a context that is done, or of the export: it ends the worker
\* if the context is done, else it is counted and the loop goes on.
SendFails(w) ==
  /\ pc[w] = "sent" \/ (pc[w] = "limit" /\ ctxDone)
  /\ IF ctxDone
     THEN Goto(w, "returned") /\ UNCHANGED <<iteration, errors>>
     ELSE /\ errors' = [errors EXCEPT ![w] = @ + 1]
          /\ iteration' = [iteration EXCEPT ![w] = @ + 1]
          /\ Goto(w, "check")
  /\ UNCHANGED <<clock, ctxDone, template, copy, k, instant, stamped, wire, recorded>>

WorkerStep(w) ==
  \/ Quit(w) \/ Clone(w) \/ ReadClock(w) \/ Stamp(w) \/ PassLimiter(w) \/ Marshal(w)
  \/ ExportSucceeds(w) \/ SendFails(w)

Next == Tick \/ Cancel \/ \E w \in Worker : WorkerStep(w)

Spec == Init /\ [][Next]_vars

--------------------------------------------------------------------------------
\* "Prevent race conditions: Each worker modifies its own copy" (ARCHITECTURE.md:655): a
\* request has on the wire the times the worker that sends it has written into it.
OwnCopy == \A w \in Worker : pc[w] = "sent" => wire[w] = stamped[w]
================================================================================
