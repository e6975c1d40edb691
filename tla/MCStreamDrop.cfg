SPECIFICATION MCSpec
CONSTANTS
  Alert = {}
  Incident = {i1}
  Limit = 2
  OfflineAfter = 1
  MaxMounts = 1
  MaxVersion = 2
  MaxWire = 2
  MaxDrops = 1
  Retries = 2
INVARIANTS DropLosesNothing
CHECK_DEADLOCK FALSE
