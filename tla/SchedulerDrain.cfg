SPECIFICATION PromptSpec
CONSTANTS
  Payload = {p1, p2}
  None = none
  Delays = {1}
  MaxPending = 2
  DrainTimeout = 1
  ExportTimeout = 2
  CallersWait = TRUE
  MaxTime = 5
PROPERTIES DrainBounded
