CONSTANTS
  m1 = m1  m2 = m2  c1 = c1  c2 = c2
  Exit = Exit  None = None
  Metrics <- OneMetric
  Collectors <- TwoCollectors
  Interval <- Unit
  AggregationSize <- Pairs
  Faulty <- NoFault
  MaxList = 2
  MaxSamples = 3
  MaxLag = 0
  MaxSendQueue = 2
SPECIFICATION Spec
SYMMETRY CollectorSymmetry
INVARIANTS SampleFlow
