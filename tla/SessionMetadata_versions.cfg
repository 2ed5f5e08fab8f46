CONSTANTS
  cli = cli
  app = app
  plain = plain
  strict = strict
  first = first
  second = second
  Nobody = Nobody
  Processes = {cli}
  Apps = {app}
  Updates = {plain, strict, first, second}
  Strict = {strict}
  Caller <- MCCaller
  StrictAttempts = 3
  AppAttempts = 3
  MaxFaults = 1
SPECIFICATION FairSpec
INVARIANTS TypeOK ConflictsHaveCauses
PROPERTIES KeepsPromise UpdatesEnd
CHECK_DEADLOCK FALSE
