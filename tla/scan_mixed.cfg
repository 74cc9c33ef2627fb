SPECIFICATION FairSpec
CONSTANTS
  Target <- MixedTarget
  Kind <- MixedKind
  Lower <- MixedLower
  ConfigIP = {}
  PublicIP = {}
  NpmHost <- MixedHost
  Breach = {b1}
  World <- MixedWorld
  EngineScan = {e1}
  ManualScan = {}
  None = None
  MaxFaults = 1
  MaxPurges = 0
INVARIANTS
  FindingsNormalized
  FindingHasTarget
PROPERTIES
  ScanEnds
  ListedIsScanned
  RemovalSettles
