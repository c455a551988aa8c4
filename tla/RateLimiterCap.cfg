SPECIFICATION Spec
CONSTANTS
  Worker = {c1}
  Scheduler = s
  CallTimeout = 2
  Sizes = {1, 5}
  EventsPerSecond = 2
  MaxCalls = 2
  MaxTime = 4
INVARIANTS HardCap
