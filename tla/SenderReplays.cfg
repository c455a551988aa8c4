SPECIFICATION Spec
CONSTANTS
  TraceWorker = {t1, t2}
  MetricsWorker = {}
  LogsWorker = {}
  Multiplier = 1
  MaxRounds = 1
  MaxBatches = 2
  MaxReports = 0
  None = none
  Delays = {1}
  MaxPending = 2
  DrainTimeout = 0
  ExportTimeout = 1
  MaxTime = 2
INVARIANTS ReplaysBounded
