SPECIFICATION Spec
CONSTANTS
  Writer = {w1, w2}
  Recipe <- MCRecipe
  StepsOf <- MCStepsOf
  Derivative = {d1}
  Bundle = {b1, b2}
  None = None
  Deleted = Deleted
  Fitter = {f1, f2}
  Histories <- MCHistories
  Observation = {1, 2, 3, 4, 5, 6}
  At <- MCAt
  TieOrders <- MCTieOrders
  MinForBreak = 3
  Kinds = {"sps", "pps", "idr", "slice"}
  MaxUnits = 5
  Materials <- MCMaterials
  Sightings = {"o1", "o2"}
  Scenes = {"i1", "i2"}
  Unbound = "unbound"
  DeviceOf <- MCDeviceOf
  Reports <- MCReports
  EntityKinds = {"person", "vehicle"}
INVARIANT TailIsKept
CHECK_DEADLOCK FALSE
