\* A trace worker and a metrics worker, one iteration each, with a queue of one, a drain
\* deadline, and one report at any time.
SPECIFICATION FairSpec
CONSTANTS
  TraceWorker = {t1}
  MetricsWorker = {m1}
  LogsWorker = {}
  Multiplier = 1
  MaxRounds = 1
  MaxBatches = 1
  MaxReports = 1
  None = none
  Delays = {1}
  MaxPending = 1
  DrainTimeout = 1
  ExportTimeout = 1
  MaxTime = 2
INVARIANTS WorkCounted ReportsShowErrors
PROPERTIES CancelLeadsToExit
