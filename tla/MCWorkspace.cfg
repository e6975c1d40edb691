SPECIFICATION WorkspaceSpec
CONSTANTS
  Incidents = {i1, i2}
  None = None
  ToastLimit = 2
  Records <- MCRecords
  Lead = 1
  Trail = 8
  AnchorBand = 1
  Rates = {1, 2}
  ScrubAbove = 1
  Suppress = 1
  ScrubEvery = 1
  StillError = 2
  LockLimit = 0
  ExitLimit = 0
  HardLimit = 1
  SeekLimit = 2
  SeekWindow = 7
  Stage = 2
  Spans = {4, 9}
  Ranges <- MCRanges
  OpeningSpan = 6
  Sessions <- MCSessions
  MaxChanges = 3
  Dossier = {d1, d2}
  NoDossier = NoDossier
  Written <- MCWritten
  Retries = 1
  Limits <- MCLimits
INVARIANTS PausedTileIsHonest FightEnds QueuedIsSentOnce MapShowsTheLast CompleteIsCurrent CopyIsNoOlder
PROPERTIES QueueReplays
CHECK_DEADLOCK FALSE
