-------------------------- MODULE MCMetricHandler --------------------------
(* Instances of MetricHandler for TLC.                                     *)
EXTENDS MetricHandler, TLC

CONSTANTS m1, m2, c1, c2

OneMetric == {m1}
TwoMetrics == {m1, m2}
OneCollector == {c1}
TwoCollectors == {c1, c2}
Unit == [m \in Metrics |-> 1]
Staggered == [m \in Metrics |-> IF m = m1 THEN 1 ELSE 2]
NoFault == {}
FaultyOne == {m1}
Pairs == [m \in Metrics |-> 2]

CollectorSymmetry == Permutations(Collectors)
=============================================================================
