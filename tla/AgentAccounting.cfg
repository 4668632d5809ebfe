SPECIFICATION FairSpec
CONSTANTS
  r1 = r1  r2 = r2  h1 = h1  h2 = h2  j1 = j1  j2 = j2  j3 = j3
  Replica <- OneReplica
  Handler <- TwoHandlers
  Job <- OneJob
  AgentJob <- OneJob
  Untimed <- OneJob
  RecentRuns = 1
  Outcomes <- AnyOutcome
  MaxAttempt = 2
  MaxEnded = 2
  MaxRepeats = 0
  MaxFaults = 0
INVARIANTS SettledJobAccounted HashFollowsIndex
PROPERTY EventsSettle
CHECK_DEADLOCK FALSE
