SPECIFICATION Spec
CONSTANTS
  MetricsWorker = {m1, m2}
  LogsWorker = {l1}
  Points = 3
  Metric <- MCMetric
  Multiplier = 1
  MaxRounds = 1
  JitterMs = 2
  BackdateMs = 0
  MaxTime = 2
INVARIANTS OwnCopy
CHECK_DEADLOCK FALSE
