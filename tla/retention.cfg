SPECIFICATION FairSpec
CONSTANTS
  Container = {c1}
  Fingerprint = {f1}
  Scan = {s1}
  None = None
  RetentionDays = 1
  Day = 2
  HalfWord = 4
  MaxClock = 3
  MaxRows = 3
  MaxFaults = 1
INVARIANTS
  TypeOK
  AlertPerHighSample
PROPERTIES
  OnlyExpiredPurged
  FindingsReenterExpired
  ExpiredGo
