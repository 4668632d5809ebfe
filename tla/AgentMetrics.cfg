SPECIFICATION Spec
CONSTANTS
  r1 = r1  r2 = r2  h1 = h1  h2 = h2  j1 = j1  j2 = j2  j3 = j3
  Replica <- TwoReplicas
  Handler <- TwoHandlers
  Job <- TwoJobs
  AgentJob <- TwoJobs
  Untimed <- None
  RecentRuns = 1
  Outcomes <- Recorded
  MaxAttempt = 1
  MaxEnded = 2
  MaxRepeats = 1
  MaxFaults = 2
SYMMETRY Symmetry
INVARIANTS TypeOK CountedOncePerAdmission IndexedRunHasEntry IndexTrimmed
CHECK_DEADLOCK FALSE
