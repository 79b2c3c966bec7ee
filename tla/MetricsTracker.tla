-------------------------- MODULE MetricsTracker --------------------------
(***************************************************************************)
(* The metrics tracker (collector/tracker/metrics_tracker.go): which       *)
(* metrics are collected from which endpoint of which pod.  It enforces    *)
(* the limit on the number of metrics of a pod.  Every operation runs      *)
(* under the tracker's lock and is one atomic step here; module            *)
(* TrackerLocking shows that the code, with its lock and its loops, does   *)
(* implement these steps.                                                  *)
(***************************************************************************)
EXTENDS Integers, FiniteSets

CONSTANTS
    Pods,             \* pod identifiers; one of them stands for ""
    Endpoints,        \* endpoint identifiers
    MetricIds,        \* fully expanded metric IDs
    MaxMetricsPerPod  \* Max_Metrics_Per_Pod of the agent's configuration

\* The endpoints are those of one node; of metric IDs there is no end.  The agent
\* refuses to start when the limit is not positive.
ASSUME TrackerConstants ==
    /\ IsFiniteSet(Endpoints)
    /\ MaxMetricsPerPod \in Nat \ {0}

VARIABLE allMetrics   \* pod -> endpoint -> set of metric IDs, a map of maps

CollectorID == [pod : Pods, endpoint : Endpoints]

\* A Go map: a function on a subset of its possible keys.
MapOf(K, V) == UNION {[D -> V] : D \in SUBSET K}

\* What a collection yields.
FiniteSubsets(S) == {s \in SUBSET S : IsFiniteSet(s)}

EndpointsOf(p) == {e \in Endpoints : p \in DOMAIN allMetrics /\ e \in DOMAIN allMetrics[p]}

IsTracked(cid) == cid.endpoint \in EndpointsOf(cid.pod)

MetricsOf(p, e) == IF e \in EndpointsOf(p) THEN allMetrics[p][e] ELSE {}

\* One metric ID of two endpoints of the pod counts twice.
PodMetrics(p) == UNION {{e} \X MetricsOf(p, e) : e \in EndpointsOf(p)}

PodCount(p) == Cardinality(PodMetrics(p))

\* What GetCounts returns: the numbers of pods, endpoints and metrics.
Counts ==
    LET tracked == {x \in Pods \X Endpoints : x[2] \in EndpointsOf(x[1])}
    IN  [pods      |-> Cardinality(DOMAIN allMetrics),
         endpoints |-> Cardinality(tracked),
         metrics   |-> Cardinality(UNION {{x} \X MetricsOf(x[1], x[2]) : x \in tracked})]
-----------------------------------------------------------------------------
TrackerInit == allMetrics = [p \in {} |-> {}]

\* Faulty: the limit is applied to each endpoint, not to the pod.
RoomOfEndpoint(cid) == MaxMetricsPerPod - Cardinality(MetricsOf(cid.pod, cid.endpoint))

\* What is left to the pod of cid before it reaches the limit.
Room(cid) == MaxMetricsPerPod - PodCount(cid.pod)

\* What AddMetricsFromCollector can return as overflow when it is given
\* metrics with these IDs.  It takes the IDs that are not tracked yet in the
\* order of its argument, which follows the iteration order of Go maps, for as
\* long as there is room: any subset of the right size can be left over.
Overflows(cid, ids) ==
    LET new == ids \ MetricsOf(cid.pod, cid.endpoint)
        room == Room(cid)
    IN  {o \in SUBSET new :
            \/ o = {} /\ Cardinality(new) <= room
            \/ o # {} /\ Cardinality(new \ o) = room}

\* Faulty: the outer and the inner key are swapped.
TrackSwapped(cid, ids) ==
    [p \in DOMAIN allMetrics \cup {cid.endpoint} |->
        IF p # cid.endpoint THEN allMetrics[p] ELSE [e \in {cid.pod} |-> ids]]

\* Faulty: a collection replaces the metrics of its endpoint.
TrackReplacing(cid, ids) ==
    [p \in DOMAIN allMetrics \cup {cid.pod} |->
        IF p # cid.pod THEN allMetrics[p]
        ELSE [e \in EndpointsOf(p) \cup {cid.endpoint} |->
                IF e = cid.endpoint THEN ids ELSE allMetrics[p][e]]]

\* The map once cid tracks the given IDs as well; entries appear as needed,
\* also when there is no ID to add.
Track(cid, ids) ==
    [p \in DOMAIN allMetrics \cup {cid.pod} |->
        IF p # cid.pod THEN allMetrics[p]
        ELSE [e \in EndpointsOf(p) \cup {cid.endpoint} |->
                IF e = cid.endpoint THEN MetricsOf(p, e) \cup ids ELSE allMetrics[p][e]]]

AddMetricsFromCollector(cid, ids, overflow) ==
    /\ overflow \in Overflows(cid, ids)
    /\ allMetrics' = Track(cid, ids \ overflow)

\* Faulty: the pod's entry stays when its last endpoint goes.
PurgeEndpointOnly(cid) ==
    allMetrics' = [p \in DOMAIN allMetrics |->
        IF p = cid.pod THEN [e \in EndpointsOf(p) \ {cid.endpoint} |-> allMetrics[p][e]]
                       ELSE allMetrics[p]]

\* The entry of the endpoint goes, and that of its pod when it was the last one.
PurgeMetricsForCollectorEndpoint(cid) ==
    LET left == EndpointsOf(cid.pod) \ {cid.endpoint}
        pods == IF left = {} THEN DOMAIN allMetrics \ {cid.pod} ELSE DOMAIN allMetrics
    IN  allMetrics' = [p \in pods |->
            IF p = cid.pod THEN [e \in left |-> allMetrics[p][e]] ELSE allMetrics[p]]

PurgeAllMetrics == allMetrics' = [p \in {} |-> {}]

TrackerNext ==
    \/ \E cid \in CollectorID, ids \in FiniteSubsets(MetricIds) :
          \E overflow \in SUBSET ids : AddMetricsFromCollector(cid, ids, overflow)
    \/ \E cid \in CollectorID : PurgeMetricsForCollectorEndpoint(cid)
    \/ PurgeAllMetrics

TrackerSpec == TrackerInit /\ [][TrackerNext]_allMetrics
-----------------------------------------------------------------------------
TrackerTypeOK == allMetrics \in MapOf(Pods, MapOf(Endpoints, FiniteSubsets(MetricIds)))

\* However the collectors of a pod interleave, and however often they are
\* stopped and started, its endpoints together never have more metrics than
\* Max_Metrics_Per_Pod.
PodLimit == \A p \in Pods : PodCount(p) <= MaxMetricsPerPod

\* A pod is reported only while it has an endpoint: purging the last endpoint
\* removes the pod.
NoEmptyPod == \A p \in DOMAIN allMetrics : EndpointsOf(p) # {}

\* A collection never evicts what another one added, nor what its own endpoint
\* already had: a tracked metric is dropped only with the whole endpoint.
NoEviction ==
    [][\A p \in Pods, e \in Endpoints :
          e \in EndpointsOf(p) /\ e \in EndpointsOf(p)' => MetricsOf(p, e) \subseteq MetricsOf(p, e)']_allMetrics
=============================================================================
