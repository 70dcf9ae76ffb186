SPECIFICATION Spec
CONSTANTS
  None = None
  Torn = Torn
  Provider = {"claude", "codex"}
  Process = {d1, d2}
  LocalId = {n1, n2, n3}
  Hook <- Hook3
  Input <- InputTwoSessions
  MaxAttempts = 1
  MaxCrash = 1
  IOErrors = {}
  Malformed = {}
  Precedes <- PrecedesInSession
SYMMETRY Symmetric
INVARIANTS
  TypeOK
  MutualExclusion
  LinearChain
  OneSessionPerMapping
  AgentOrder
