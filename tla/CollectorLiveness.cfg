SPECIFICATION FairSpec
CONSTANTS
  q1 = q1  q2 = q2  a1 = a1  a2 = a2  b1 = b1  k1 = k1  k2 = k2
  Queue <- OneQueue
  Adapter <- OneAdapter
  QueueOf <- Only1
  AgentQueue <- OneQueue
  FlowQueue <- OneQueue
  Tick <- TwoTicks
  MaxEvents = 1
  MaxChanges = 2
  MaxFaults = 2
INVARIANT Conserved
PROPERTY HeldIsTaken
