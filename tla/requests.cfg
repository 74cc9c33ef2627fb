SPECIFICATION FairSpec
CONSTANTS
  Slot = {r1, r2}
  Address = {a, b}
  Route = {"summary", "block", "unblock"}
  Nobody = Nobody
  Engine = Engine
  Rate = 1
  Burst = 2
  MaxRequests = 3
  MaxClock = 1
  MaxFaults = 1
INVARIANTS
  TypeOK
  BlockHolds
  RateBound
  AlertsAccounted
  NobodyStuck
PROPERTIES
  EveryRequestEnds
