----------------------- MODULE MetricsTrackerProofs -----------------------
(* Proofs about the metrics tracker, for every node, limit and history.    *)
EXTENDS MetricsTracker, FiniteSetTheorems, TLAPS

\* What it means to be a Go map.
LEMMA MapOfFacts ==
    ASSUME NEW K, NEW V, NEW f \in MapOf(K, V)
    PROVE  /\ DOMAIN f \subseteq K
           /\ \A k \in DOMAIN f : f[k] \in V
BY DEF MapOf

\* How a function is shown to be a Go map.
LEMMA MapOfIntro ==
    ASSUME NEW K, NEW V, NEW D \in SUBSET K, NEW f \in [D -> V]
    PROVE  f \in MapOf(K, V)
BY DEF MapOf

\* A collection may yield nothing.
LEMMA NothingIsFinite ==
    ASSUME NEW S
    PROVE  {} \in FiniteSubsets(S)
BY FS_EmptySet DEF FiniteSubsets

\* In a well-typed tracker the lookups are those of the nested maps.
LEMMA Lookup ==
    ASSUME TrackerTypeOK, NEW p \in Pods
    PROVE  /\ p \in DOMAIN allMetrics =>
                /\ EndpointsOf(p) = DOMAIN allMetrics[p]
                /\ \A e \in EndpointsOf(p) : allMetrics[p][e] \in FiniteSubsets(MetricIds)
           /\ p \notin DOMAIN allMetrics => EndpointsOf(p) = {}
<1>1. ASSUME p \in DOMAIN allMetrics
      PROVE  allMetrics[p] \in MapOf(Endpoints, FiniteSubsets(MetricIds))
  BY <1>1, MapOfFacts DEF TrackerTypeOK
<1>2. ASSUME p \in DOMAIN allMetrics
      PROVE  /\ DOMAIN allMetrics[p] \subseteq Endpoints
             /\ \A e \in DOMAIN allMetrics[p] : allMetrics[p][e] \in FiniteSubsets(MetricIds)
  BY <1>1, <1>2, MapOfFacts
<1> QED BY <1>2 DEF EndpointsOf

\* A set of pairs of finitely many first and, for each, finitely many second
\* components.
LEMMA FiniteUnion ==
    ASSUME NEW S, IsFiniteSet(S), NEW f, DOMAIN f = S, \A x \in S : IsFiniteSet(f[x])
    PROVE  IsFiniteSet(UNION {f[x] : x \in S})
<1> DEFINE T == {f[x] : x \in S}
<1>1. [x \in S |-> f[x]] \in Surjection(S, T)
  BY DEF Surjection
<1>2. IsFiniteSet(T)
  BY <1>1, FS_Surjection
<1>3. \A t \in T : IsFiniteSet(t)
  OBVIOUS
<1> HIDE DEF T
<1>4. IsFiniteSet(UNION T)
  BY <1>2, <1>3, FS_UNION
<1> QED BY <1>4 DEF T

\* The lookups of a well-typed tracker return finite sets, of endpoints that
\* are not tracked as well.
LEMMA LookupFinite ==
    ASSUME TrackerTypeOK, NEW p, NEW e
    PROVE  /\ MetricsOf(p, e) \subseteq MetricIds
           /\ IsFiniteSet(MetricsOf(p, e))
<1>1. CASE e \in EndpointsOf(p)
  <2>1. p \in DOMAIN allMetrics /\ p \in Pods
    BY <1>1, MapOfFacts DEF EndpointsOf, TrackerTypeOK
  <2>2. allMetrics[p][e] \in FiniteSubsets(MetricIds)
    BY <1>1, <2>1, Lookup
  <2> QED BY <1>1, <2>2 DEF MetricsOf, FiniteSubsets
<1>2. CASE e \notin EndpointsOf(p)
  BY <1>2, FS_EmptySet DEF MetricsOf
<1> QED BY <1>1, <1>2

\* The metrics of a pod are pairs of an endpoint and a metric of it.
LEMMA PodMetricsPairs ==
    ASSUME NEW p, NEW x
    PROVE  x \in PodMetrics(p) <=> \E e \in Endpoints : \E m \in MetricsOf(p, e) : x = <<e, m>>
BY DEF PodMetrics, MetricsOf, EndpointsOf

\* Where no endpoint of a pod gains metrics, the pod does not.
LEMMA MetricsShrink ==
    ASSUME NEW p, \A e \in Endpoints : MetricsOf(p, e)' \subseteq MetricsOf(p, e)
    PROVE  PodMetrics(p)' \subseteq PodMetrics(p)
<1>1. ASSUME NEW x
      PROVE  x \in PodMetrics(p)' <=> \E e \in Endpoints : \E m \in MetricsOf(p, e)' : x = <<e, m>>
  BY DEF PodMetrics, MetricsOf, EndpointsOf
<1>2. ASSUME NEW x
      PROVE  x \in PodMetrics(p) <=> \E e \in Endpoints : \E m \in MetricsOf(p, e) : x = <<e, m>>
  BY PodMetricsPairs
<1> QED BY <1>1, <1>2

\* The metrics of a pod form a finite set, so that counting them makes sense.
LEMMA PodMetricsFinite ==
    ASSUME NEW p, \A e \in Endpoints : IsFiniteSet(MetricsOf(p, e))
    PROVE  /\ IsFiniteSet(PodMetrics(p))
           /\ PodCount(p) \in Nat
<1> DEFINE f == [e \in EndpointsOf(p) |-> {e} \X MetricsOf(p, e)]
<1>1. EndpointsOf(p) \subseteq Endpoints
  BY DEF EndpointsOf
<1>2. IsFiniteSet(EndpointsOf(p))
  BY <1>1, TrackerConstants, FS_Subset
<1>3. ASSUME NEW e \in EndpointsOf(p)
      PROVE  IsFiniteSet({e} \X MetricsOf(p, e))
  BY <1>1, FS_Singleton, FS_Product
<1>4. DOMAIN f = EndpointsOf(p) /\ \A e \in EndpointsOf(p) : IsFiniteSet(f[e])
  BY <1>3
<1>5. PodMetrics(p) = UNION {f[e] : e \in EndpointsOf(p)}
  BY DEF PodMetrics
<1> HIDE DEF f
<1>6. IsFiniteSet(PodMetrics(p))
  BY <1>2, <1>4, <1>5, FiniteUnion
<1> QED BY <1>6, FS_CardinalityType DEF PodCount

-----------------------------------------------------------------------------
\* Type correctness of the maps, whatever the sequence of additions and purges.
LEMMA TypeInit == TrackerInit => TrackerTypeOK
<1> SUFFICES ASSUME TrackerInit PROVE TrackerTypeOK
  OBVIOUS
<1>1. allMetrics \in [{} -> MapOf(Endpoints, FiniteSubsets(MetricIds))]
  BY DEF TrackerInit
<1> QED BY <1>1, MapOfIntro DEF TrackerTypeOK

\* Adding metrics keeps the maps well-typed.
LEMMA TypeAdd ==
    ASSUME TrackerTypeOK, NEW cid \in CollectorID, NEW ids \in FiniteSubsets(MetricIds),
           NEW overflow \in SUBSET ids, AddMetricsFromCollector(cid, ids, overflow)
    PROVE  TrackerTypeOK'
<1> DEFINE inner(p) == [e \in EndpointsOf(p) \cup {cid.endpoint} |->
               IF e = cid.endpoint THEN MetricsOf(p, e) \cup (ids \ overflow) ELSE allMetrics[p][e]]
<1>1. cid.pod \in Pods /\ cid.endpoint \in Endpoints
  BY DEF CollectorID
<1>2. inner(cid.pod) \in MapOf(Endpoints, FiniteSubsets(MetricIds))
  <2>1. \A e \in EndpointsOf(cid.pod) : allMetrics[cid.pod][e] \in FiniteSubsets(MetricIds)
    BY <1>1, Lookup
  <2>2. MetricsOf(cid.pod, cid.endpoint) \cup (ids \ overflow) \in FiniteSubsets(MetricIds)
    BY LookupFinite, FS_Union, FS_Subset DEF FiniteSubsets
  <2>3. inner(cid.pod) \in [EndpointsOf(cid.pod) \cup {cid.endpoint} -> FiniteSubsets(MetricIds)]
    BY <2>1, <2>2
  <2>4. EndpointsOf(cid.pod) \cup {cid.endpoint} \subseteq Endpoints
    BY <1>1 DEF EndpointsOf
  <2> HIDE DEF inner
  <2> QED BY <2>3, <2>4, MapOfIntro
<1>3. allMetrics' = [p \in DOMAIN allMetrics \cup {cid.pod} |->
                        IF p # cid.pod THEN allMetrics[p] ELSE inner(p)]
  BY DEF AddMetricsFromCollector, Track
<1> HIDE DEF inner
<1>4. \A p \in DOMAIN allMetrics : allMetrics[p] \in MapOf(Endpoints, FiniteSubsets(MetricIds))
  BY MapOfFacts DEF TrackerTypeOK
<1>5. DOMAIN allMetrics \cup {cid.pod} \subseteq Pods
  BY <1>1, MapOfFacts DEF TrackerTypeOK
<1>6. allMetrics' \in [DOMAIN allMetrics \cup {cid.pod} -> MapOf(Endpoints, FiniteSubsets(MetricIds))]
  BY <1>2, <1>3, <1>4
<1> QED BY <1>5, <1>6, MapOfIntro DEF TrackerTypeOK

\* Purging an endpoint keeps the maps well-typed.
LEMMA TypePurge ==
    ASSUME TrackerTypeOK, NEW cid \in CollectorID, PurgeMetricsForCollectorEndpoint(cid)
    PROVE  TrackerTypeOK'
<1> DEFINE left == EndpointsOf(cid.pod) \ {cid.endpoint}
           inner == [e \in left |-> allMetrics[cid.pod][e]]
           pods == IF left = {} THEN DOMAIN allMetrics \ {cid.pod} ELSE DOMAIN allMetrics
<1>1. cid.pod \in Pods
  BY DEF CollectorID
<1>2. inner \in MapOf(Endpoints, FiniteSubsets(MetricIds))
  <2>1. \A e \in left : allMetrics[cid.pod][e] \in FiniteSubsets(MetricIds)
    BY <1>1, Lookup
  <2>2. left \subseteq Endpoints
    BY DEF EndpointsOf
  <2>3. inner \in [left -> FiniteSubsets(MetricIds)]
    BY <2>1
  <2> HIDE DEF inner, left
  <2> QED BY <2>2, <2>3, MapOfIntro
<1>3. allMetrics' = [p \in pods |-> IF p = cid.pod THEN inner ELSE allMetrics[p]]
  BY DEF PurgeMetricsForCollectorEndpoint
<1>4. pods \subseteq DOMAIN allMetrics
  OBVIOUS
<1> HIDE DEF inner, pods
<1>5. \A p \in DOMAIN allMetrics : allMetrics[p] \in MapOf(Endpoints, FiniteSubsets(MetricIds))
  BY MapOfFacts DEF TrackerTypeOK
<1>6. pods \subseteq Pods
  BY <1>4, MapOfFacts DEF TrackerTypeOK
<1>7. allMetrics' \in [pods -> MapOf(Endpoints, FiniteSubsets(MetricIds))]
  BY <1>2, <1>3, <1>4, <1>5
<1> QED BY <1>6, <1>7, MapOfIntro DEF TrackerTypeOK

\* Every step keeps the maps well-typed.
LEMMA TypeStep == TrackerTypeOK /\ [TrackerNext]_allMetrics => TrackerTypeOK'
<1> SUFFICES ASSUME TrackerTypeOK, [TrackerNext]_allMetrics
             PROVE  TrackerTypeOK'
  OBVIOUS
<1>1. ASSUME NEW cid \in CollectorID, NEW ids \in FiniteSubsets(MetricIds), NEW overflow \in SUBSET ids,
             AddMetricsFromCollector(cid, ids, overflow)
      PROVE  TrackerTypeOK'
  BY <1>1, TypeAdd
<1>2. ASSUME NEW cid \in CollectorID, PurgeMetricsForCollectorEndpoint(cid)
      PROVE  TrackerTypeOK'
  BY <1>2, TypePurge
<1>3. CASE PurgeAllMetrics
  <2>1. allMetrics' \in [{} -> MapOf(Endpoints, FiniteSubsets(MetricIds))]
    BY <1>3 DEF PurgeAllMetrics
  <2> QED BY <2>1, MapOfIntro DEF TrackerTypeOK
<1>4. CASE UNCHANGED allMetrics
  BY <1>4 DEF TrackerTypeOK
<1> QED BY <1>1, <1>2, <1>3, <1>4 DEF TrackerNext

\* The tracker's nested maps stay maps from pods to endpoints to metric IDs.
THEOREM TrackerTypeCorrect == TrackerSpec => []TrackerTypeOK
BY TypeInit, TypeStep, PTL DEF TrackerSpec
-----------------------------------------------------------------------------
\* An addition extends the metrics of its pod by what did not overflow of the
\* new IDs, and touches no other pod.
LEMMA AddChanges ==
    ASSUME NEW cid \in CollectorID, NEW ids, NEW overflow, AddMetricsFromCollector(cid, ids, overflow),
           NEW p \in Pods
    PROVE  /\ EndpointsOf(p)' = IF p = cid.pod THEN EndpointsOf(p) \cup {cid.endpoint}
                                             ELSE EndpointsOf(p)
           /\ \A e \in Endpoints :
                 MetricsOf(p, e)' = IF p = cid.pod /\ e = cid.endpoint
                                    THEN MetricsOf(p, e) \cup (ids \ overflow) ELSE MetricsOf(p, e)
           /\ PodMetrics(p)' = IF p = cid.pod
                               THEN PodMetrics(p) \cup ({cid.endpoint} \X (ids \ overflow))
                               ELSE PodMetrics(p)
<1>1. cid.pod \in Pods /\ cid.endpoint \in Endpoints
  BY DEF CollectorID
<1>2. allMetrics' = Track(cid, ids \ overflow)
  BY DEF AddMetricsFromCollector
<1>3. EndpointsOf(p)' = IF p = cid.pod THEN EndpointsOf(p) \cup {cid.endpoint} ELSE EndpointsOf(p)
  BY <1>1, <1>2 DEF EndpointsOf, Track
<1>4. ASSUME NEW e \in Endpoints
      PROVE  MetricsOf(p, e)' = IF p = cid.pod /\ e = cid.endpoint
                                THEN MetricsOf(p, e) \cup (ids \ overflow) ELSE MetricsOf(p, e)
  <2>1. CASE p # cid.pod
    BY <1>2, <1>3, <2>1 DEF MetricsOf, Track, EndpointsOf
  <2>2. CASE p = cid.pod /\ e # cid.endpoint
    BY <1>2, <1>3, <2>2 DEF MetricsOf, Track
  <2>3. CASE p = cid.pod /\ e = cid.endpoint
    <3>1. e \in EndpointsOf(p)'
      BY <1>3, <2>3
    <3>2. allMetrics'[p][e] = MetricsOf(p, e) \cup (ids \ overflow)
      BY <1>2, <2>3 DEF Track
    <3>3. MetricsOf(p, e)' = allMetrics'[p][e]
      BY <3>1 DEF MetricsOf
    <3> QED BY <2>3, <3>2, <3>3
  <2> QED BY <2>1, <2>2, <2>3
<1>5. PodMetrics(p)' = IF p = cid.pod THEN PodMetrics(p) \cup ({cid.endpoint} \X (ids \ overflow))
                                      ELSE PodMetrics(p)
  <2>1. ASSUME NEW x
        PROVE  x \in PodMetrics(p)' <=> \E e \in Endpoints : \E m \in MetricsOf(p, e)' : x = <<e, m>>
    BY DEF PodMetrics, MetricsOf, EndpointsOf
  <2>2. ASSUME NEW x
        PROVE  x \in PodMetrics(p) <=> \E e \in Endpoints : \E m \in MetricsOf(p, e) : x = <<e, m>>
    BY PodMetricsPairs
  <2>3. CASE p # cid.pod
    BY <1>4, <2>1, <2>2, <2>3
  <2>4. CASE p = cid.pod
    <3> DEFINE new == {cid.endpoint} \X (ids \ overflow)
    <3>1. ASSUME NEW x \in PodMetrics(p)'
          PROVE  x \in PodMetrics(p) \cup new
      <4>1. PICK e \in Endpoints : \E m \in MetricsOf(p, e)' : x = <<e, m>>
        BY <2>1, <3>1
      <4>2. CASE e = cid.endpoint
        <5>1. PICK m \in MetricsOf(p, e)' : x = <<e, m>>
          BY <4>1
        <5>2. m \in MetricsOf(p, e) \/ m \in ids \ overflow
          BY <1>4, <2>4, <4>2, <5>1
        <5> QED BY <1>1, <2>2, <4>2, <5>1, <5>2
      <4>3. CASE e # cid.endpoint
        BY <1>4, <2>2, <4>1, <4>3
      <4> QED BY <4>2, <4>3
    <3>2. ASSUME NEW x \in PodMetrics(p)
          PROVE  x \in PodMetrics(p)'
      BY <1>4, <2>1, <2>2, <3>2
    <3>3. ASSUME NEW x \in new
          PROVE  x \in PodMetrics(p)'
      <4>1. PICK m \in ids \ overflow : x = <<cid.endpoint, m>>
        BY <3>3
      <4>2. m \in MetricsOf(p, cid.endpoint)'
        BY <1>1, <1>4, <2>4
      <4> QED BY <1>1, <2>1, <4>1, <4>2
    <3> QED BY <2>4, <3>1, <3>2, <3>3
  <2> QED BY <2>3, <2>4
<1> QED BY <1>3, <1>4, <1>5

\* A purge adds nothing.
LEMMA PurgeShrinks ==
    ASSUME TrackerTypeOK, NEW cid \in CollectorID, PurgeMetricsForCollectorEndpoint(cid),
           NEW p \in Pods
    PROVE  /\ EndpointsOf(p)' = IF p = cid.pod THEN EndpointsOf(p) \ {cid.endpoint}
                                             ELSE EndpointsOf(p)
           /\ \A e \in EndpointsOf(p)' : MetricsOf(p, e)' = MetricsOf(p, e)
           /\ PodMetrics(p)' \subseteq PodMetrics(p)
<1> DEFINE left == EndpointsOf(cid.pod) \ {cid.endpoint}
           pods == IF left = {} THEN DOMAIN allMetrics \ {cid.pod} ELSE DOMAIN allMetrics
<1>1. allMetrics' = [q \in pods |->
            IF q = cid.pod THEN [e \in left |-> allMetrics[q][e]] ELSE allMetrics[q]]
  BY DEF PurgeMetricsForCollectorEndpoint
<1>2. EndpointsOf(p)' = IF p = cid.pod THEN left ELSE EndpointsOf(p)
  BY <1>1 DEF EndpointsOf
<1>3. ASSUME NEW e \in EndpointsOf(p)'
      PROVE  MetricsOf(p, e)' = MetricsOf(p, e)
  <2>1. p \in pods /\ e \in DOMAIN allMetrics'[p]
    BY <1>1 DEF EndpointsOf
  <2>2. allMetrics'[p][e] = allMetrics[p][e] /\ e \in EndpointsOf(p)
    BY <1>1, <1>2, <2>1
  <2> QED BY <2>2 DEF MetricsOf
<1>4. PodMetrics(p)' \subseteq PodMetrics(p)
  <2>1. ASSUME NEW e \in Endpoints
        PROVE  MetricsOf(p, e)' \subseteq MetricsOf(p, e)
    BY <1>3 DEF MetricsOf
  <2> QED BY <2>1, MetricsShrink
<1> QED BY <1>2, <1>3, <1>4

\* What an addition keeps fits in the room the pod has left.
LEMMA AddKeepsLimit ==
    ASSUME PodLimit, \A p \in Pods, e \in Endpoints : IsFiniteSet(MetricsOf(p, e)),
           NEW cid \in CollectorID, NEW ids, IsFiniteSet(ids), NEW overflow,
           AddMetricsFromCollector(cid, ids, overflow)
    PROVE  PodLimit'
<1> SUFFICES ASSUME NEW p \in Pods
             PROVE  PodCount(p)' <= MaxMetricsPerPod
  BY DEF PodLimit
<1> DEFINE new == ids \ MetricsOf(cid.pod, cid.endpoint)
           added == new \ overflow
<1>1. CASE p # cid.pod
  BY <1>1, AddChanges DEF PodCount, PodLimit
<1>2. CASE p = cid.pod
  <2>1. overflow \in Overflows(cid, ids)
    BY DEF AddMetricsFromCollector
  <2>2. IsFiniteSet(added) /\ Cardinality(added) \in Nat
    BY FS_Subset, FS_CardinalityType
  <2>3. PodCount(p) \in Nat /\ IsFiniteSet(PodMetrics(p))
    BY PodMetricsFinite
  <2>4. Cardinality(added) <= Room(cid)
    <3>1. MaxMetricsPerPod \in Nat /\ PodCount(cid.pod) \in Nat
      BY TrackerConstants, <1>2, <2>3
    <3>2. CASE overflow = {}
      BY <2>1, <3>2 DEF Overflows
    <3>3. CASE overflow # {}
      BY <2>1, <2>2, <3>1, <3>3 DEF Overflows, Room
    <3> QED BY <3>2, <3>3
  <2>5. PodMetrics(p)' = PodMetrics(p) \cup ({cid.endpoint} \X added)
    <3>1. PodMetrics(p)' = PodMetrics(p) \cup ({cid.endpoint} \X (ids \ overflow))
      BY <1>2, AddChanges
    <3>2. cid.endpoint \in Endpoints
      BY DEF CollectorID
    <3>3. {cid.endpoint} \X (ids \ overflow) \subseteq PodMetrics(p) \cup ({cid.endpoint} \X added)
      BY <1>2, <3>2, PodMetricsPairs
    <3> QED BY <3>1, <3>3
  <2>6. /\ IsFiniteSet({cid.endpoint} \X added)
        /\ Cardinality({cid.endpoint} \X added) = Cardinality(added)
    <3>1. IsFiniteSet({cid.endpoint}) /\ Cardinality({cid.endpoint}) = 1
      BY FS_Singleton
    <3>2. /\ IsFiniteSet({cid.endpoint} \X added)
          /\ Cardinality({cid.endpoint} \X added) = Cardinality({cid.endpoint}) * Cardinality(added)
      BY <2>2, <3>1, FS_Product
    <3> QED BY <2>2, <3>1, <3>2
  <2>7. PodMetrics(p) \cap ({cid.endpoint} \X added) = {}
    BY <1>2, PodMetricsPairs
  <2>8. PodCount(p)' = PodCount(p) + Cardinality(added)
    <3>1. Cardinality(PodMetrics(p) \cup ({cid.endpoint} \X added)) =
             Cardinality(PodMetrics(p)) + Cardinality({cid.endpoint} \X added) - Cardinality({})
      BY <2>3, <2>6, <2>7, FS_Union
    <3>2. Cardinality({}) = 0
      BY FS_EmptySet
    <3> QED BY <2>2, <2>3, <2>5, <2>6, <3>1, <3>2 DEF PodCount
  <2> QED BY <1>2, <2>2, <2>3, <2>4, <2>8, TrackerConstants DEF Room
<1> QED BY <1>1, <1>2

\* A step that adds nothing to a pod keeps it under the limit.
LEMMA ShrinkKeepsLimit ==
    ASSUME TrackerTypeOK, PodLimit, \A p \in Pods : PodMetrics(p)' \subseteq PodMetrics(p)
    PROVE  PodLimit'
<1> SUFFICES ASSUME NEW p \in Pods
             PROVE  PodCount(p)' <= MaxMetricsPerPod
  BY DEF PodLimit
<1>1. IsFiniteSet(PodMetrics(p)) /\ PodCount(p) \in Nat
  BY LookupFinite, PodMetricsFinite
<1>2. IsFiniteSet(PodMetrics(p)') /\ PodCount(p)' <= PodCount(p)
  BY <1>1, FS_Subset DEF PodCount
<1>3. PodCount(p)' \in Nat
  BY <1>2, FS_CardinalityType DEF PodCount
<1> QED BY <1>1, <1>2, <1>3, TrackerConstants DEF PodLimit

\* A pod never has more metrics than Max_Metrics_Per_Pod, however its
\* collectors are added to, purged and restarted.
THEOREM PodLimitHolds == TrackerSpec => []PodLimit
<1>1. TrackerInit => PodLimit
  <2> SUFFICES ASSUME TrackerInit, NEW p \in Pods
               PROVE  PodCount(p) <= MaxMetricsPerPod
    BY DEF PodLimit
  <2>1. PodMetrics(p) = {}
    BY DEF TrackerInit, PodMetrics, MetricsOf, EndpointsOf
  <2> QED BY <2>1, FS_EmptySet, TrackerConstants DEF PodCount
<1>2. TrackerTypeOK /\ PodLimit /\ [TrackerNext]_allMetrics => PodLimit'
  <2> SUFFICES ASSUME TrackerTypeOK, PodLimit, [TrackerNext]_allMetrics
               PROVE  PodLimit'
    OBVIOUS
  <2>1. ASSUME NEW cid \in CollectorID, NEW ids \in FiniteSubsets(MetricIds), NEW overflow \in SUBSET ids,
               AddMetricsFromCollector(cid, ids, overflow)
        PROVE  PodLimit'
    BY <2>1, LookupFinite, AddKeepsLimit DEF FiniteSubsets
  <2>2. ASSUME NEW cid \in CollectorID, PurgeMetricsForCollectorEndpoint(cid)
        PROVE  PodLimit'
    BY <2>2, PurgeShrinks, ShrinkKeepsLimit
  <2>3. CASE PurgeAllMetrics
    <3>1. \A p \in Pods : PodMetrics(p)' = {}
      BY <2>3 DEF PurgeAllMetrics, PodMetrics, MetricsOf, EndpointsOf
    <3> QED BY <3>1, ShrinkKeepsLimit
  <2>4. CASE UNCHANGED allMetrics
    <3>1. \A p \in Pods : PodMetrics(p)' = PodMetrics(p)
      BY <2>4 DEF PodMetrics, MetricsOf, EndpointsOf
    <3> QED BY <3>1, ShrinkKeepsLimit
  <2> QED BY <2>1, <2>2, <2>3, <2>4 DEF TrackerNext
<1> QED BY <1>1, <1>2, TrackerTypeCorrect, PTL DEF TrackerSpec

\* A pod is listed exactly while it has an endpoint.
THEOREM NoEmptyPodHolds == TrackerSpec => []NoEmptyPod
<1>1. TrackerInit => NoEmptyPod
  BY DEF TrackerInit, NoEmptyPod
<1>2. TrackerTypeOK /\ NoEmptyPod /\ [TrackerNext]_allMetrics => NoEmptyPod'
  <2> SUFFICES ASSUME TrackerTypeOK, NoEmptyPod, [TrackerNext]_allMetrics
               PROVE  NoEmptyPod'
    OBVIOUS
  <2>0. DOMAIN allMetrics \subseteq Pods
    BY MapOfFacts DEF TrackerTypeOK
  <2>1. ASSUME NEW cid \in CollectorID, NEW ids \in FiniteSubsets(MetricIds), NEW overflow \in SUBSET ids,
               AddMetricsFromCollector(cid, ids, overflow)
        PROVE  NoEmptyPod'
    <3>1. DOMAIN allMetrics' = DOMAIN allMetrics \cup {cid.pod}
      BY <2>1 DEF AddMetricsFromCollector, Track
    <3>2. cid.pod \in Pods
      BY DEF CollectorID
    <3>3. ASSUME NEW p \in DOMAIN allMetrics' PROVE EndpointsOf(p)' # {}
      BY <2>0, <2>1, <3>1, <3>2, <3>3, AddChanges DEF NoEmptyPod
    <3> QED BY <3>3 DEF NoEmptyPod
  <2>2. ASSUME NEW cid \in CollectorID, PurgeMetricsForCollectorEndpoint(cid)
        PROVE  NoEmptyPod'
    <3>1. ASSUME NEW p \in DOMAIN allMetrics'
          PROVE  /\ p \in DOMAIN allMetrics
                 /\ p = cid.pod => EndpointsOf(p) \ {cid.endpoint} # {}
      BY <2>2, <3>1 DEF PurgeMetricsForCollectorEndpoint
    <3>2. ASSUME NEW p \in DOMAIN allMetrics' PROVE EndpointsOf(p)' # {}
      BY <2>0, <2>2, <3>1, <3>2, PurgeShrinks DEF NoEmptyPod
    <3> QED BY <3>2 DEF NoEmptyPod
  <2>3. CASE PurgeAllMetrics
    BY <2>3 DEF PurgeAllMetrics, NoEmptyPod
  <2>4. CASE UNCHANGED allMetrics
    BY <2>4 DEF NoEmptyPod, EndpointsOf
  <2> QED BY <2>1, <2>2, <2>3, <2>4 DEF TrackerNext
<1> QED BY <1>1, <1>2, TrackerTypeCorrect, PTL DEF TrackerSpec

\* No collection evicts a tracked metric: it goes only with its endpoint.
THEOREM NoEvictionHolds == TrackerSpec => NoEviction
<1> DEFINE Kept == \A p \in Pods, e \in Endpoints :
               e \in EndpointsOf(p) /\ e \in EndpointsOf(p)' => MetricsOf(p, e) \subseteq MetricsOf(p, e)'
<1>1. TrackerTypeOK /\ [TrackerNext]_allMetrics => [Kept]_allMetrics
  <2> SUFFICES ASSUME TrackerTypeOK, TrackerNext,
                      NEW p \in Pods, NEW e \in Endpoints,
                      e \in EndpointsOf(p), e \in EndpointsOf(p)'
               PROVE  MetricsOf(p, e) \subseteq MetricsOf(p, e)'
    OBVIOUS
  <2>1. ASSUME NEW cid \in CollectorID, NEW ids \in FiniteSubsets(MetricIds), NEW overflow \in SUBSET ids,
               AddMetricsFromCollector(cid, ids, overflow)
        PROVE  MetricsOf(p, e) \subseteq MetricsOf(p, e)'
    <3>1. PodMetrics(p) \subseteq PodMetrics(p)'
      BY <2>1, AddChanges
    <3>2. ASSUME NEW m \in MetricsOf(p, e)
          PROVE  m \in MetricsOf(p, e)'
      <4>1. <<e, m>> \in PodMetrics(p)
        BY PodMetricsPairs
      <4>2. <<e, m>> \in PodMetrics(p)'
        BY <3>1, <4>1
      <4>3. \E d \in Endpoints : \E n \in MetricsOf(p, d)' : <<e, m>> = <<d, n>>
        BY <4>2 DEF PodMetrics, MetricsOf, EndpointsOf
      <4> QED BY <4>3
    <3> QED BY <3>2
  <2>2. ASSUME NEW cid \in CollectorID, PurgeMetricsForCollectorEndpoint(cid)
        PROVE  MetricsOf(p, e) \subseteq MetricsOf(p, e)'
    BY <2>2, PurgeShrinks
  <2>3. CASE PurgeAllMetrics
    BY <2>3 DEF PurgeAllMetrics, EndpointsOf
  <2> QED BY <2>1, <2>2, <2>3 DEF TrackerNext
<1> QED BY <1>1, TrackerTypeCorrect, PTL DEF TrackerSpec, NoEviction
-----------------------------------------------------------------------------
\* The pods come one at a time: those of the map are finitely many, whatever
\* pods there can be.
LEMMA PodsStayFinite ==
    ASSUME IsFiniteSet(DOMAIN allMetrics), [TrackerNext]_allMetrics
    PROVE  IsFiniteSet(DOMAIN allMetrics)'
<1>1. ASSUME NEW cid \in CollectorID, NEW ids \in FiniteSubsets(MetricIds), NEW overflow \in SUBSET ids,
             AddMetricsFromCollector(cid, ids, overflow)
      PROVE  IsFiniteSet(DOMAIN allMetrics)'
  <2>1. DOMAIN allMetrics' = DOMAIN allMetrics \cup {cid.pod}
    BY <1>1 DEF AddMetricsFromCollector, Track
  <2> QED BY <2>1, FS_AddElement
<1>2. ASSUME NEW cid \in CollectorID, PurgeMetricsForCollectorEndpoint(cid)
      PROVE  IsFiniteSet(DOMAIN allMetrics)'
  <2>1. DOMAIN allMetrics' \subseteq DOMAIN allMetrics
    BY <1>2 DEF PurgeMetricsForCollectorEndpoint
  <2> QED BY <2>1, FS_Subset
<1>3. CASE PurgeAllMetrics
  <2>1. DOMAIN allMetrics' = {}
    BY <1>3 DEF PurgeAllMetrics
  <2> QED BY <2>1, FS_EmptySet
<1>4. CASE UNCHANGED allMetrics
  BY <1>4
<1> QED BY <1>1, <1>2, <1>3, <1>4 DEF TrackerNext

\* GetCounts counts finite sets.
LEMMA CountsAreNumbers ==
    ASSUME TrackerTypeOK, IsFiniteSet(DOMAIN allMetrics)
    PROVE  Counts \in [pods : Nat, endpoints : Nat, metrics : Nat]
<1> DEFINE tracked == {x \in Pods \X Endpoints : x[2] \in EndpointsOf(x[1])}
           f == [x \in tracked |-> {x} \X MetricsOf(x[1], x[2])]
<1>1. IsFiniteSet(tracked)
  <2>1. tracked \subseteq (DOMAIN allMetrics) \X Endpoints
    BY DEF EndpointsOf
  <2>2. IsFiniteSet((DOMAIN allMetrics) \X Endpoints)
    BY FS_Product, TrackerConstants
  <2> QED BY <2>1, <2>2, FS_Subset
<1>2. IsFiniteSet(UNION {f[x] : x \in tracked})
  <2>1. \A x \in tracked : IsFiniteSet({x} \X MetricsOf(x[1], x[2]))
    BY LookupFinite, FS_Singleton, FS_Product
  <2>2. DOMAIN f = tracked /\ \A x \in tracked : IsFiniteSet(f[x])
    BY <2>1
  <2> HIDE DEF f, tracked
  <2> QED BY <1>1, <2>2, FiniteUnion
<1>3. Counts = [pods |-> Cardinality(DOMAIN allMetrics), endpoints |-> Cardinality(tracked),
                metrics |-> Cardinality(UNION {f[x] : x \in tracked})]
  BY DEF Counts
<1> HIDE DEF f, tracked
<1>4. /\ Cardinality(DOMAIN allMetrics) \in Nat /\ Cardinality(tracked) \in Nat
      /\ Cardinality(UNION {f[x] : x \in tracked}) \in Nat
  BY <1>1, <1>2, FS_CardinalityType
<1> QED BY <1>3, <1>4
=============================================================================
