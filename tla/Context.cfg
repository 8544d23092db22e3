CONSTANTS
  Process = 5
  terminal_total_num = 3
  EarlyInput = FALSE
  Faults = FALSE
  KeysAtBoot = FALSE
  MaxTicksPerWindow = 1
  MaxDepth = 3
SPECIFICATION ContextSpec
INVARIANTS ContextTypeOK OwnIntact SavedIntact RightContext EoiPending
PROPERTY KeyboardServed
