SPECIFICATION FairSpec
CONSTANTS
  old = old
  successor = successor
  NumMails = 3
  Procs = {old}
  Tasks = {1}
  FetchLimit = 2
  AckBatch = 1
  InboxLimit = 2
  AckedKept = 1
  MaxDisruptions = 1
INVARIANT InboxBounded
PROPERTIES PendingKept EveryLetterSettles
