SPECIFICATION Spec
CONSTANTS
  old = old
  successor = successor
  NumMails = 1
  Procs = {old, successor}
  Tasks = {1}
  FetchLimit = 2
  AckBatch = 1
  InboxLimit = 2
  AckedKept = 2
  MaxDisruptions = 2
SYMMETRY Symmetry
INVARIANTS TypeOK NothingLost AppliedOnce OneOutcome
PROPERTY PromiseKept
