SPECIFICATION Spec
CONSTANTS
  None = None
  Torn = Torn
  Provider = {"claude", "codex"}
  Process = {d1}
  LocalId = {n1, n2, n3, n4, n5}
  Hook <- Hook3
  Input <- InputOneSession
  MaxAttempts = 2
  MaxCrash = 2
  IOErrors = {"read", "rename"}
  Malformed = {3}
  Precedes = {}
INVARIANTS DeletedOnlyIfDelivered LoneDaemonGivesUpOnInvalid
