SPECIFICATION FairSpec
CONSTANTS
  Container = {}
  Fingerprint = {}
  Scan = {}
  None = None
  RetentionDays = 1
  Day = 1
  HalfWord = 4
  MaxClock = 2
  MaxRows = 2
  MaxFaults = 0
PROPERTY AlertsRetained
