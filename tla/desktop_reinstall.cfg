SPECIFICATION Spec
CONSTANTS
  Expected = {"e1"}
  CliPath = {"cli.js", "launcher"}
  terminalAdapters <- Agents
  Level = {"everyone", "power"}
  DefaultLevel = "everyone"
  UserConfigs <- OneHasHooks
  OnPath = {"codex"}
  MaxCalls = 1
  None = None
  Torn = Torn
  Signer = {"s1", "s2"}
  Name = {"n1"}
  MaxRequests = 3
  MaxKills = 1
  NoFile = NoFile
  MaxSessions = 2
  MaxEvents = 2
  MaxLists = 2
  MaxLoads = 2
  Nothing = Nothing
  Sent = Sent
INVARIANT ReinstallHelps
CHECK_DEADLOCK FALSE
