CONSTANTS
  Process = 2
  MAX_FREQ = 4
  DEFAULT_FREQ = 2
  Fds = 1
  INT_MAX = 6
SPECIFICATION Spec
INVARIANTS TypeOK FreshClock ClockRuns RateKept
PROPERTY ReadsReturn
