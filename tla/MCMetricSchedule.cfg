CONSTANTS
  m1 = m1  m2 = m2  c1 = c1  c2 = c2
  Exit = Exit  None = None
  Metrics <- TwoMetrics
  Collectors <- TwoCollectors
  Interval <- Staggered
  AggregationSize <- Unit
  Faulty <- FaultyOne
  MaxList = 0
  MaxSamples = 0
  MaxLag = 1
  MaxSendQueue = 2
SPECIFICATION Spec
SYMMETRY CollectorSymmetry
INVARIANTS CollectExclusive WakesInTime StopsWithinOneSample
PROPERTY EarlyOnlyPastDeadHead
