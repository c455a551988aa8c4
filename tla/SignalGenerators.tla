---------------------------- MODULE SignalGenerators ----------------------------
(* How many metrics, time series and logs are generated and which metrics          *)
(* (internal/generator/metrics, internal/generator/logs).                          *)
EXTENDS Integers, Sequences, FiniteSetsExt, SequencesExt, Functions

CONSTANT
  Variance      \* of the number of time series around the default: 50

ASSUME VarianceAssumption == Variance \in Nat

\* The number of metrics GetMetricsByType defines for each type, host_metrics first.
TypeSizes == <<10, 2, 3, 5, 5, 12, 9, 10, 5, 10, 31, 15, 26, 5, 17, 8, 12, 12>>

\* GetAllAvailableMetrics: the metrics of all types, one type after the other; a metric is
\* its position, the metrics of type k end at TypeEnd(k).
TypeEnd(k) == SumFunction(SubSeq(TypeSizes, 1, k))
Available == TypeEnd(Len(TypeSizes))
OfType(k) == (TypeEnd(k) - TypeSizes[k] + 1)..TypeEnd(k)

\* Mutant: the step is rounded down to a whole number.
SelectMetrics_WholeStep(target) ==
  IF target >= Available THEN [i \in 1..Available |-> i]
  ELSE [i \in 1..target |-> (i - 1) * (Available \div target) + 1]

\* Every (Available / target)-th metric.  The step is a float: Available being prime, no
\* multiple of it below Available is a whole number, so rounding down is exact.
SelectMetrics(target) ==
  IF target >= Available THEN [i \in 1..Available |-> i]
  ELSE [i \in 1..target |-> ((i - 1) * Available) \div target + 1]

\* determineTimeSeriesCount: a default within the range varies and is clamped to it,
\* another one is ignored.
SeriesCounts(m) ==
  IF m.default \in m.min..m.max
  THEN {Max({m.min, Min({m.max, m.default + v})}) : v \in (-Variance)..Variance}
  ELSE m.min..m.max

\* Go divides towards zero.
Percent(n, p) == IF p < 0 THEN 0 - ((n * (0 - p)) \div 100) ELSE (n * p) \div 100

\* Mutant: the system logs get their own percentage, not the remainder.
LogCounts_NoRemainder(l) ==
  [http |-> Percent(l.count, l.http), app |-> Percent(l.count, l.app), sys |-> Percent(l.count, l.sys)]

\* Logs of each kind; the remainder of the roundings goes to the system logs.
LogCounts(l) ==
  LET http == Percent(l.count, l.http)
      app == Percent(l.count, l.app)
  IN [http |-> http, app |-> app, sys |-> l.count - http - app]
================================================================================
