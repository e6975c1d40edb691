SPECIFICATION MCSpec
CONSTANTS
  clip = clip
  frame = frame
  camera = camera
  k1 = k1
  forged = forged
  None = None
  Object = {clip, frame}
  Upload <- MCUpload
  Key = {k1, forged}
  Owner <- MCOwner
  Export = {x1}
  MaxLooks = 1
INVARIANTS RowIsWhole ChainsVerify
PROPERTIES ImplementsLedger
