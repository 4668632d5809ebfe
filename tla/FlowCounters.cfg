SPECIFICATION Spec
CONSTANTS
  Kind <- ThreeKinds
  Candidates <- ThreeSteps
  Entry <- EntryStep
  Complete <- LastStep
  MaxHop = 1
  MaxEdges = 2
  MaxJobs = 3
  Origins = {}
  MaxPoints = 2
INVARIANTS TypeOK EventsCountedOnce CompletionsCounted TornOnlyInFlight EdgesKept HopsFollow
CHECK_DEADLOCK FALSE
