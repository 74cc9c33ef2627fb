SPECIFICATION FairSpec
CONSTANTS
  HalfWord = 32768
  Second = 9
  Environment <- SomeEnvironments
  MaxRequests = 1
INVARIANTS
  TypeOK
  RequestsKeepStore
  SoundEnvironmentStarts
  NobodyStuck
PROPERTIES
  NoRequestAfterShutdown
  StopsOnSignal
  TicksServed
  HttpFailureStopsEngine
CHECK_DEADLOCK FALSE
