SPECIFICATION Spec
CONSTANTS
  None = None
  Torn = Torn
  Provider = {"claude", "codex"}
  Process = {d1, d2}
  LocalId = {n1, n2, n3, n4}
  Hook <- Hook2
  Input <- InputOneSession
  MaxAttempts = 1
  MaxCrash = 1
  IOErrors = {"map", "start", "truncate", "bind", "record", "index", "checkpoint", "unlink"}
  Malformed = {}
  Precedes <- PrecedesInSession
SYMMETRY Symmetric
INVARIANTS LockHasHolder IInv
PROPERTY ImplementsDelivery
