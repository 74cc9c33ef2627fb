SPECIFICATION FairSpec
CONSTANTS
  Target <- MailTarget
  Kind <- MailKind
  Lower <- MailLower
  ConfigIP = {}
  PublicIP = {}
  NpmHost = {}
  Breach = {b1}
  World <- MailWorld
  EngineScan = {e1}
  ManualScan = {m1}
  None = None
  MaxFaults = 1
  MaxPurges = 1
INVARIANTS
  TypeOK
  NeverAlertedTwice
  AlertsAccountedFor
PROPERTIES
  ImplementsLedger
  ListedIsScanned
