SPECIFICATION RecordsSpec
CONSTANTS
  clip = clip
  still = still
  crossing = crossing
  None = None
  Centroid = Centroid
  Recording = {clip, still}
  Stated <- MCStated
  MaxSends = 2
  MaxIncidents = 3
  MaxDeaths = 1
  ada = ada
  ivo = ivo
  Nil = Nil
  Worker = {ada, ivo}
  RoleOf <- MCRoleOf
  Evidence = {1, 2}
  MaxCases = 2
  MaxRuns = 1
  Budgets <- MCBudgets
INVARIANTS UploadsAreTrue ManifestIsContent CompletedRunMeansCalibrated
PROPERTIES RulingIsFinal QueueEnds
CHECK_DEADLOCK FALSE
