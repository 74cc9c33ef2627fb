SPECIFICATION Spec
CONSTANTS
  Path = {p}
  TornWrites = FALSE
  MaxLines = 1
  MaxFiles = 1
  MaxFaults = 0
  MaxClock = 2
  Day = 1
INVARIANTS
  StatsOfTheDay
