SPECIFICATION FairSpec
CONSTANTS
  None = None
  Empty = Empty
  Home = Home
  Command <- Commands4
  Kind <- HooksAndTrouble
  Daemon = {1, 2, 3}
  Polls = 1
  AtOnce = 2
  Faults = {"death", "abort"}
  MaxFaults = 1
INVARIANT ServedUntilTrouble
PROPERTY NextHookRecovers
CHECK_DEADLOCK FALSE
