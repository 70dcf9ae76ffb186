SPECIFICATION Spec
CONSTANTS
  None = None
  Empty = Empty
  Home = Home
  Command <- Commands6
  Kind <- InAnyOrder
  Daemon = {1, 2, 3}
  Polls = 2
  AtOnce = 1
  Faults = {"death", "reuse"}
  MaxFaults = 2
INVARIANTS OneAfterTheOther StoppedHasEnded
CHECK_DEADLOCK FALSE
