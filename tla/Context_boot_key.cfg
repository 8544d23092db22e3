CONSTANTS
  Process = 2
  terminal_total_num = 2
  EarlyInput = FALSE
  Faults = FALSE
  KeysAtBoot = TRUE
  MaxTicksPerWindow = 1
  MaxDepth = 3
SPECIFICATION ContextSpec
PROPERTY KeyboardServed
