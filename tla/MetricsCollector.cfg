SPECIFICATION Spec
CONSTANTS
  q1 = q1  q2 = q2  a1 = a1  a2 = a2  b1 = b1  k1 = k1  k2 = k2
  Queue <- TwoQueues
  Adapter <- TwoAdapters
  QueueOf <- OneEach
  AgentQueue <- OneQueue
  FlowQueue <- OneQueue
  Tick <- TwoTicks
  MaxEvents = 2
  MaxChanges = 2
  MaxFaults = 0
INVARIANTS TypeOK Conserved TotalCoversSeries ListensWhenActive
PROPERTY TotalsGrow
SYMMETRY Symmetry
