SPECIFICATION FairSpec
CONSTANTS
  Job <- SixJobs
  Queue <- TwoQueues
  Status <- TwoStatuses
  Arrangements <- Small
  OfTrace <- Wanted
  Matching <- Wanted
  MatchingGone <- WantedGone
  Page = 2
  Limit = 3
  Total = 5
  ScanCount = 2
  Enough = 2
  MaxMoves = 1
  MaxFaults = 1
  MaxErrors = 1
INVARIANTS TypeOK BudgetKept CompleteUnlessCut SearchExact
PROPERTY ReadsEnd
CHECK_DEADLOCK FALSE
