CONSTANTS
  Terminal_total_num = 2
  buffer_size = 2
  Letters = {"a"}
  Patient = TRUE
  MaxLine = 3
SPECIFICATION Spec
INVARIANTS TypeOK  BuffersMatchScreens
PROPERTY LineAnswered
