\* Three callers, a burst of four and requests up to above it.
SPECIFICATION Spec
CONSTANTS
  Worker = {c1, c2}
  Scheduler = s
  CallTimeout = 2
  Sizes = {1, 3, 5}
  EventsPerSecond = 2
  MaxCalls = 2
  MaxTime = 6
INVARIANTS TypeOK RateKept
SYMMETRY Interchangeable
