------------------------ MODULE MCCollectorManager ------------------------
(* Collectors of the endpoints of one pod, which share the pod's limit.    *)
EXTENDS CollectorManager, TLC

CONSTANTS p1, e1, e2, m1

OneCollector == {[pod |-> p1, endpoint |-> e1]}
TwoCollectors == OneCollector \cup {[pod |-> p1, endpoint |-> e2]}
OneMetric == {{m1}}
Symmetry == Permutations(Workers) \cup Permutations(Endpoints)
=============================================================================
