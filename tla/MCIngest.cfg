SPECIFICATION MCSpec
CONSTANTS
  cam = cam
  phone = phone
  upload = upload
  None = None
  Observation <- MCObservation
  Report <- MCReport
  Ruling <- Rulings
  Run = {p1}
  Domain <- MCDomain
  Disk <- MCDisk
  Window <- MCWindow
  Amp = {0}
  NoAmp = 0
  Full = 1
  Band <- MCBand
  Claim <- MCClaim
  MaxActions = 2
  LifeSafety <- MCLifeSafety
  Trigger <- MCTrigger
  Box <- MCBox
  AlertWindow = 1
  MaxTime = 1
INVARIANTS OneBannerPerEvent AlertsAreTrue
