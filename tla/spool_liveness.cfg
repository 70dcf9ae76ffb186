SPECIFICATION FairSpec
CONSTANTS
  None = None
  Torn = Torn
  Provider = {"claude", "codex"}
  Process = {d1, d2}
  LocalId = {n1, n2, n3}
  Hook <- Hook2
  Input <- InputOneSession
  MaxAttempts = 2
  MaxCrash = 1
  IOErrors = {"checkpoint", "rmdir"}
  Malformed = {}
  Precedes <- PrecedesInSession
PROPERTY SpoolDrains
