CONSTANTS
  Process = 6
  terminal_total_num = 3
  EarlyInput = FALSE
  Faults = FALSE
SPECIFICATION Spec
INVARIANT BackgroundDrawsOnBuffer
CHECK_DEADLOCK FALSE
