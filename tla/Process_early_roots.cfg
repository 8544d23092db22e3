CONSTANTS
  Process = 6
  terminal_total_num = 3
  EarlyInput = TRUE
  Faults = FALSE
SPECIFICATION Spec
INVARIANT RootsAreShells
CHECK_DEADLOCK FALSE
