SPECIFICATION Spec
CONSTANTS
  r1 = r1  r2 = r2  h1 = h1  h2 = h2  j1 = j1  j2 = j2  j3 = j3
  Replica <- OneReplica
  Handler <- TwoHandlers
  Job <- TwoJobs
  AgentJob <- TwoJobs
  Untimed <- None
  RecentRuns = 1
  Outcomes <- Recorded
  MaxAttempt = 1
  MaxEnded = 2
  MaxRepeats = 1
  MaxFaults = 0
INVARIANT CountedOnce
CHECK_DEADLOCK FALSE
