SPECIFICATION Spec
CONSTANTS
  q1 = q1  q2 = q2  a1 = a1  a2 = a2  b1 = b1  k1 = k1  k2 = k2
  Queue <- OneQueue
  Adapter <- BothOfOne
  QueueOf <- Rewrapped
  AgentQueue <- OneQueue
  FlowQueue <- OneQueue
  Tick <- OneTick
  MaxEvents = 1
  MaxChanges = 1
  MaxFaults = 0
INVARIANT WindowCountsJobs
