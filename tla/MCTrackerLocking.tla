------------------------- MODULE MCTrackerLocking -------------------------
(***************************************************************************)
(* Two goroutines; a pod with two endpoints that share a limit of one      *)
(* metric, and a pod with one endpoint.  A list of metrics is empty (the   *)
(* call that only registers an endpoint), fits, or overflows with an ID    *)
(* that occurs twice.                                                      *)
(***************************************************************************)
EXTENDS TrackerLocking

CONSTANTS p1, p2, e1, e2, m1, m2

MCCollectors == {[pod |-> p1, endpoint |-> e1], [pod |-> p1, endpoint |-> e2],
                 [pod |-> p2, endpoint |-> e1]}

MCMetricSeqs == {<<>>, <<m2>>, <<m1, m2, m2>>}
=============================================================================
