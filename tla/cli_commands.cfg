SPECIFICATION FairSpec
CONSTANTS
  Chunk = {1, 2, 3}
  Large = {2}
  File = {"a.ts", ".env"}
  Secret = {".env"}
  Content = {"text", "bytes"}
  Excluded <- WhyExcluded
  Undisturbed = {}
  Parent = {"p1", "p2"}
  Payload = {"h1", "h2"}
  Signed <- SignedOne
  Time = {1, 2, 3}
  EventTime = 2
  NotADate = NotADate
  Logs <- Histories
  MaxDiffer = 2
  Expected = {"e1", "e2"}
  CliPath = {"ours", "stale"}
  Configs <- ConfigsFound
  NoFile = NoFile
  Platform = {"darwin", "linux"}
  Hook = {h1, h2}
  ToolCall <- ToolCalls
  UserFile <- UserFiles
  MaxSaves = 1
  None = None
INVARIANTS
  TypeOK
  OutputConserved
  CapturedToTheExit
  ChangesOnRecord
  SignedIsConfirmed
  HonestIsConsistent
  TimelineIsHistory
  HealthIsEarned
  RunsOnlyIfLet
  EvidenceOfDenials
  ProtectsItself
  ExitTellsTruth
PROPERTY CommandEnds
CHECK_DEADLOCK FALSE
