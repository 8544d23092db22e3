CONSTANTS
  Process = 6
  terminal_total_num = 3
  EarlyInput = FALSE
  Faults = FALSE
SPECIFICATION Spec
INVARIANTS TypeOK ForegroundOwned CallChains RootsAreShells MachineConsistent ForegroundRuns VideoConfined BootOrder
PROPERTIES VideoFollowsSwitch LinksStable OthersUntouched
PROPERTIES ImplementsSessions EventuallyBooted EveryTerminalRuns
