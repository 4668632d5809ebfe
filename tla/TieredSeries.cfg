SPECIFICATION Spec
CONSTANTS
  w1 = w1
  Writer <- OneWriter
  Raw = 4
  Tiers <- TwoTiers
  Interval = 3
  MaxTime = 4
  MaxCount = 1
  MaxFailures = 1
  MaxClears = 1
INVARIANTS TypeOK RollupConserves BucketsIncreasing LengthBounded WindowIsComplete
PROPERTY ImplementsLedger
CHECK_DEADLOCK FALSE
