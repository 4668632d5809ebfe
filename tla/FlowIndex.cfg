SPECIFICATION Spec
CONSTANTS
  h1 = h1  h2 = h2  c1 = c1  t1 = t1  t2 = t2  x1 = x1  x2 = x2  x3 = x3  y1 = y1  ka = ka  kb = kb  kc = kc
  Handler <- TwoHandlers
  Clearer <- OneClearer
  Trace <- TwoTraces
  Job <- FourJobs
  Key <- ThreeKeys
  TraceOf <- Carries
  KeysOf <- Names
  Parented <- Children
  RecentTraces = 1
  JobsPerTrace = 1
  KeysPerTrace = 1
  MaxEvents = 4
  MaxFaults = 1
INVARIANTS TypeOK IndexAgrees MarkersSearchable TracesTrimmed OverrunBounded
SYMMETRY Symmetry
CHECK_DEADLOCK FALSE
