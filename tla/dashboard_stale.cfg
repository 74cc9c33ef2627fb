SPECIFICATION Spec
CONSTANTS
  Handler = {h1, h2}
  Refresher = {f1}
  Others = {"summary"}
  MaxVersion = 1
  MaxLogins = 2
  Failures = FALSE
INVARIANTS
  RemovedIsGone
