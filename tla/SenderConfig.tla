------------------------------ MODULE SenderConfig ------------------------------
(* Which sender configurations are accepted and what they are completed to         *)
(* (internal/config/sender.go).  An input is "" (not given), "file" (the file the  *)
(* generator writes) or "null" (the null device); a duration is "", "bad" or a     *)
(* number as text.  Environment variables are expanded beforehand.                 *)
EXTENDS Integers

SenderConfigs ==
  LET Input == {"", "file", "null"}
  IN [traces : Input, metrics : Input, logs : Input, endpoint : BOOLEAN, rate : Int,
      concurrency : Int, multiplier : Int, duration : STRING, jitter : Int, backdate : Int,
      batch : Int, drainTimeout : STRING, maxPending : Int]

Parses(duration) == duration \notin {"", "bad"}

\* Mutant: the duration's format is not looked at.
ValidSender_AnyDuration(c) ==
  /\ \E i \in {c.traces, c.metrics, c.logs} : i # ""
  /\ c.endpoint
  /\ c.rate > 0 /\ c.concurrency > 0 /\ c.multiplier >= 0
  /\ c.jitter >= 0 /\ c.backdate >= 0 /\ c.maxPending >= 0
  /\ c.drainTimeout # "" => Parses(c.drainTimeout)

\* Validate; the batch sizes are not looked at.
ValidSender(c) ==
  /\ \E i \in {c.traces, c.metrics, c.logs} : i # ""
  /\ c.endpoint
  /\ c.rate > 0 /\ c.concurrency > 0 /\ c.multiplier >= 0
  /\ c.duration \notin {"", "0"} => Parses(c.duration)
  /\ c.jitter >= 0 /\ c.backdate >= 0 /\ c.maxPending >= 0
  /\ c.drainTimeout # "" => Parses(c.drainTimeout)

\* Zero stands for "not set" throughout: no configuration means no jitter or no pending
\* queue.
SenderWithDefaults(c) ==
  [c EXCEPT !.batch = IF @ = 0 THEN 100 ELSE @,
            !.duration = IF @ = "" THEN "0" ELSE @,
            !.jitter = IF @ = 0 THEN 1000 ELSE @,
            !.drainTimeout = IF @ = "" THEN "120" ELSE @,
            !.maxPending = IF @ = 0 THEN 100000 ELSE @]

\* HasTraces, HasMetrics, HasLogs.
Has(input) == input \notin {"", "null"}
================================================================================
