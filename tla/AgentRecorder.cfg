SPECIFICATION FairSpec
CONSTANTS
  Libraries <- AllLibraries
  Reentrant <- Listeners
  Throwing <- AllButClock
  MaxCalls = 3
  MaxDepth = 2
  MaxActive = 2
  MaxThrows = 2
INVARIANTS TypeOK OneClosingLine LinesOfLastAttempt
PROPERTY CallsResolve
CHECK_DEADLOCK FALSE
