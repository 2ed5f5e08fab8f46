SPECIFICATION Spec
CONSTANTS
  cli = cli
  app = app
  s1 = s1
  NumMessages = 2
  Writers = {cli, app}
  Self = cli
  Sockets = {}
  BatchSize = 2
  PageSize = 1
  Faults = {"post", "announce", "centre", "get", "drop", "hold", "handover"}
  MaxFaults = 2
CHECK_DEADLOCK FALSE
INVARIANTS TypeOK NothingSteppedOver OutboxKept
PROPERTY PromiseKept
