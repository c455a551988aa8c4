\* Callers that break the rule and enqueue while Close runs; a queue of one
\* and a drain without deadline.
SPECIFICATION FairSpec
CONSTANTS
  Payload = {p1, p2}
  None = none
  Delays = {1, 2}
  MaxPending = 1
  DrainTimeout = 0
  ExportTimeout = 1
  CallersWait = FALSE
  MaxTime = 4
INVARIANTS NoLostWakeup Ledger
PROPERTIES CloseReturns AcceptedIsSettled
