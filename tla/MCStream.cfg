SPECIFICATION MCSpec
CONSTANTS
  Alert = {a1, a2, a3}
  Incident = {i1}
  Limit = 2
  OfflineAfter = 1
  MaxMounts = 2
  MaxVersion = 2
  MaxWire = 2
  MaxDrops = 2
  Retries = 2
INVARIANTS OneConnection
PROPERTIES BannerStays ComesBack
CHECK_DEADLOCK FALSE
