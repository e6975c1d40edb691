SPECIFICATION ReasoningSpec
CONSTANTS
  Chain <- SceneChain
  ObjectMode <- SceneObjectMode
  Structured = TRUE
  CapacityRetries = 3
  Duration = {0, 20000}
  Confidence = {0, 1, 2}
  H1 = H1
  H2 = H2
  Device = Device
  Camera = Camera
  Absent = Absent
  Hyp = {H1, H2}
  Source = {Device, Camera}
  Caller = {1, 2}
  Answers <- Pair
  MaxCalls = 2
  MaxEffort = 7
  MaxRemovals = 1
  Questions <- TheQuestions
  NoQuestion = NoQuestion
  ReadLimit = 1
  LastDay = 2
  MaxFiled = 2
  MaxAsked = 2
  Obs = {1, 2}
  Foreign = {9}
  Founder = 1
  Capture <- Captures
  Media <- Kinds
  MaxFrames = 1
  Statutes = {"s129", "s177", "s999"}
  Situations = {{"s129", "s177"}, {}}
  SceneAnswers <- Scenes
  ContextAnswers <- Contexts
  LegalAnswers <- Legals
  NoPackage = NoPackage
  NoRouting = NoRouting
INVARIANTS FallbackIsEarned ProposalSurvives LabelsAreEarned CitationsWereRead PackageIsSound RatesAreEarned
PROPERTIES SettledSurvive ExaminationEnds
CHECK_DEADLOCK FALSE
