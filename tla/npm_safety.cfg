SPECIFICATION Spec
CONSTANTS
  Path = {p}
  TornWrites = TRUE
  MaxLines = 2
  MaxFiles = 2
  MaxFaults = 2
  MaxClock = 1
  Day = 1
INVARIANTS
  TypeOK
  RepeatsBounded
  RowsInOrder
  NothingSkipped
