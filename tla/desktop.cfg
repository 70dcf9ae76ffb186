SPECIFICATION Spec
CONSTANTS
  Expected = {"e1"}
  CliPath = {"cli.js", "launcher"}
  terminalAdapters <- Agents
  Level = {"everyone", "power"}
  DefaultLevel = "everyone"
  UserConfigs <- OneHasHooks
  OnPath = {"codex"}
  MaxCalls = 2
  None = None
  Torn = Torn
  Signer = {"s1", "s2"}
  Name = {"n1"}
  MaxRequests = 3
  MaxKills = 1
  NoFile = NoFile
  MaxSessions = 2
  MaxEvents = 1
  MaxLists = 2
  MaxLoads = 2
  Nothing = Nothing
  Sent = Sent
INVARIANTS TypeOK SettingsKept HooksAsSelected SignersKept ShownBelongs
PROPERTY ShownGrows
CHECK_DEADLOCK FALSE
