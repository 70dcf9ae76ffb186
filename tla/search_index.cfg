SPECIFICATION FairSpec
CONSTANTS
  Session = {s1, s2}
  MaxEvents = 2
  Matches = {1, 2}
  Search = {q1, q2}
  Limit = 2
  MaxFaults = 1
  Unreadable = Unreadable
  None = None
INVARIANTS SearchIsComplete ReportedOnce
PROPERTY IndexHeals
CHECK_DEADLOCK FALSE
