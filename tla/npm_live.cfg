SPECIFICATION FairSpec
CONSTANTS
  Path = {p, q}
  TornWrites = FALSE
  MaxLines = 2
  MaxFiles = 1
  MaxFaults = 1
  MaxClock = 0
  Day = 1
PROPERTIES
  LinesArrive
