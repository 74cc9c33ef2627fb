SPECIFICATION Spec
CONSTANTS
  Target <- ListTarget
  Kind <- ListKind
  Lower <- ListLower
  ConfigIP = {}
  PublicIP = {}
  NpmHost = {}
  Breach = {b1}
  World = {}
  EngineScan = {e1}
  ManualScan = {}
  None = None
  MaxFaults = 0
  MaxPurges = 0
PROPERTIES
  OnlyTheUserReenables
