\* Three late payloads, a queue of two and a caller that waits before Close.
SPECIFICATION Spec
CONSTANTS
  Payload = {p1, p2, p3}
  None = none
  Delays = {1, 2}
  MaxPending = 2
  DrainTimeout = 1
  ExportTimeout = 1
  CallersWait = TRUE
  MaxTime = 3
SYMMETRY Interchangeable
INVARIANTS TypeOK NoLostWakeup Ledger NothingLeftBehind
PROPERTIES ImplementsDelivery
