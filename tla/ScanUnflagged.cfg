SPECIFICATION Spec
CONSTANTS
  Job <- SixJobs
  Queue <- TwoQueues
  Status <- TwoStatuses
  Arrangements <- Small
  OfTrace <- Wanted
  Matching <- Wanted
  MatchingGone <- WantedGone
  Page = 2
  Limit = 3
  Total = 3
  ScanCount = 2
  Enough = 2
  MaxMoves = 0
  MaxFaults = 0
  MaxErrors = 0
INVARIANT UnflaggedIsComplete
CHECK_DEADLOCK FALSE
