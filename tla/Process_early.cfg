CONSTANTS
  Process = 6
  terminal_total_num = 3
  EarlyInput = TRUE
  Faults = TRUE
SPECIFICATION Spec
INVARIANTS TypeOK MachineConsistent
CHECK_DEADLOCK FALSE
