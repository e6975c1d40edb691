SPECIFICATION MCSpec
CONSTANTS
  cam = cam
  phone = phone
  drone = drone
  upload = upload
  None = None
  Observation <- MCObservation
  Report <- MCReport
  Ruling <- Rulings
  Run = {p1, p2}
  Domain <- MCDomain
  Disk <- MCDisk
  Window <- MCWindow
  Amp <- MCAmp
  NoAmp = 0
  Full = 2
  Band <- MCBand
  Claim <- MCClaim
  MaxActions = 3
INVARIANTS NoTwinIncidents ScoreIsCurrent
PROPERTIES ImplementsRegister OnlyEvidenceLowersPriority
SYMMETRY PassSymmetry
