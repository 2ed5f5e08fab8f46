SPECIFICATION FairSpec
CONSTANTS
  cli = cli
  app = app
  s1 = s1
  NumMessages = 2
  Writers = {cli}
  Self = cli
  Sockets = {s1}
  BatchSize = 1
  PageSize = 1
  Faults = {"post", "centre", "get", "drop", "hold", "handover", "restart", "socket"}
  MaxFaults = 2
CHECK_DEADLOCK FALSE
INVARIANT RoutedInOrder
PROPERTY EveryMessageArrives
