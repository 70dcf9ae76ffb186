SPECIFICATION Spec
CONSTANTS
  p1 = p1
  p2 = p2
  p3 = p3
  u1 = u1
  u2 = u2
  s1 = s1
  s2 = s2
  None = None
  Command = {p1, p2, p3, u1, u2}
  Session = {s1, s2}
  Kind <- KindOf
  For <- OtherSession
INVARIANTS LinkOpens AttemptIsTrue
PROPERTY NoLastingTrouble
CHECK_DEADLOCK FALSE
