----------------------- MODULE TrackerLockingProofs -----------------------
(***************************************************************************)
(* Proofs that the tracker's code, with its lock and its loops, implements *)
(* the atomic tracker: for any number of goroutines, pods, endpoints and   *)
(* metrics, and any limit.                                                 *)
(***************************************************************************)
EXTENDS TrackerLocking, MetricsTrackerProofs

\* What GetCounts has found once it has visited the pods of V.
Tracked(V) == {x \in V \X Endpoints : x[2] \in EndpointsOf(x[1])}
Monitored(V) == UNION {{x} \X MetricsOf(x[1], x[2]) : x \in Tracked(V)}
CountsOf(V) == [pods      |-> Cardinality(V),
                endpoints |-> Cardinality(Tracked(V)),
                metrics   |-> Cardinality(Monitored(V))]
\* AddMetricsFromCollector inside its loop: done are the IDs it has looked at.
\* It has kept those it does not return, and counted the new ones among them;
\* once it refuses one the pod is at its limit.
Adding(c, rest, n, overflow) ==
    LET old == Abs!MetricsOf(c.cid.pod, c.cid.endpoint)
    IN  \E done \in FiniteSubsets(MetricIds) :
            /\ rest \in Seq(MetricIds)
            /\ ToSet(c.metrics) = done \cup ToSet(rest)
            /\ overflow \subseteq done \ old
            /\ allMetrics = Abs!Track(c.cid, done \ overflow)
            /\ n.metrics = Abs!PodCount(c.cid.pod) + Cardinality((done \ overflow) \ old)
            /\ n.metrics = PodCount(c.cid.pod)
            /\ overflow # {} => n.metrics = MaxMetricsPerPod

\* PurgeMetricsForCollectorEndpoint once it has deleted the endpoint.
EndpointPurged(c) ==
    LET left == Abs!EndpointsOf(c.cid.pod) \ {c.cid.endpoint}
    IN  allMetrics = [p \in DOMAIN committed |->
            IF p = c.cid.pod THEN [e \in left |-> committed[p][e]] ELSE committed[p]]

\* ... and once it has deleted the pod as well, if that was the last endpoint.
PodPurged(c) ==
    LET left == Abs!EndpointsOf(c.cid.pod) \ {c.cid.endpoint}
        pods == IF left = {} THEN DOMAIN committed \ {c.cid.pod} ELSE DOMAIN committed
    IN  allMetrics = [p \in pods |->
            IF p = c.cid.pod THEN [e \in left |-> committed[p][e]] ELSE committed[p]]

\* GetCounts inside its loop: the pods not left over have been counted.
Counting(rest, n) ==
    /\ rest \in Seq(DOMAIN allMetrics) /\ IsInjective(rest)
    /\ n = CountsOf(DOMAIN allMetrics \ ToSet(rest))
    /\ n.metrics <= n.pods * MaxMetricsPerPod

\* How far a thread is, given what is in its local variables.
ThreadOK(c, at, rest, n, overflow) ==
    /\ c \in Calls \cup {NoCall}
    /\ at \in {"idle", "lock", "begin", "loop", "return"}
    /\ n \in [pods : Nat, endpoints : Nat, metrics : Nat]
    /\ overflow \subseteq MetricIds
    /\ c = NoCall <=> at = "idle"
    /\ at \in {"idle", "lock", "begin"} \/ c.op \in {"purge", "purgeAll"} => n = NoCounts
    /\ at \in {"idle", "lock", "begin"} \/ c.op # "add" => overflow = {}
    /\ c.op = "purgeAll" => at # "loop"
    /\ at = "return" /\ c.op \in {"add", "getCounts"} => rest = <<>>
    /\ at \in {"loop", "return"} =>
          /\ c.op = "add" => Adding(c, rest, n, overflow)
          /\ c.op = "purge" => IF at = "loop" THEN EndpointPurged(c) ELSE PodPurged(c)
          /\ c.op = "purgeAll" => allMetrics = [p \in {} |-> {}]
          /\ c.op = "getCounts" => Counting(rest, n)

Threading == \A t \in Threads : ThreadOK(call[t], pc[t], todo[t], count[t], result[t])

Inside(t) == pc[t] \in {"begin", "loop", "return"}

\* Who has the lock is inside its operation; a writer is alone.
LockOK ==
    /\ writer \subseteq Threads /\ readers \subseteq Threads
    /\ \A t \in Threads : /\ t \in writer <=> Inside(t) /\ Writes(call[t])
                          /\ t \in readers <=> Inside(t) /\ ~Writes(call[t])
    /\ \A t, u \in writer : t = u
    /\ writer # {} => readers = {}

\* The map differs from the one of the last unlock only while a writer has begun.
Clean == (\A t \in writer : pc[t] = "begin") => allMetrics = committed

MapOK == TrackerTypeOK /\ PodLimit /\ IsFiniteSet(DOMAIN allMetrics)

\* The thread-local variables are functions.
Functional ==
    /\ call = [t \in Threads |-> call[t]] /\ pc = [t \in Threads |-> pc[t]]
    /\ todo = [t \in Threads |-> todo[t]] /\ count = [t \in Threads |-> count[t]]
    /\ result = [t \in Threads |-> result[t]]

\* The inductive invariant.
IInv == Functional /\ MapOK /\ LockOK /\ Clean /\ Threading
-----------------------------------------------------------------------------
\* Sequences.

\* A loop over a sequence takes its head.
LEMMA HeadAndTail ==
    ASSUME NEW S, NEW s \in Seq(S), s # <<>>
    PROVE  /\ Head(s) \in S /\ Tail(s) \in Seq(S)
           /\ ToSet(s) = {Head(s)} \cup ToSet(Tail(s))
           /\ ToSet(s) \subseteq S
<1>1. Head(s) \in S /\ Tail(s) \in Seq(S) /\ Len(s) \in Nat \ {0} /\ Len(Tail(s)) = Len(s) - 1
      /\ Head(s) = s[1] /\ \A i \in 1..Len(Tail(s)) : Tail(s)[i] = s[i + 1]
      /\ DOMAIN s = 1..Len(s) /\ DOMAIN Tail(s) = 1..Len(Tail(s))
  OBVIOUS
<1>2. ASSUME NEW x \in ToSet(s)
      PROVE  x \in {Head(s)} \cup ToSet(Tail(s)) /\ x \in S
  <2>1. PICK i \in 1..Len(s) : x = s[i]
    BY <1>1 DEF ToSet
  <2>2. CASE i = 1
    BY <1>1, <2>1, <2>2
  <2>3. CASE i # 1
    <3>1. i - 1 \in 1..Len(Tail(s)) /\ Tail(s)[i - 1] = x
      BY <1>1, <2>1, <2>3
    <3>2. x \in ToSet(Tail(s))
      BY <1>1, <3>1 DEF ToSet
    <3>3. x \in S
      BY <2>1
    <3> QED BY <3>2, <3>3
  <2> QED BY <2>2, <2>3
<1>3. ASSUME NEW x \in {Head(s)} \cup ToSet(Tail(s))
      PROVE  x \in ToSet(s)
  <2>1. CASE x = Head(s)
    BY <1>1, <2>1 DEF ToSet
  <2>2. CASE x \in ToSet(Tail(s))
    <3>1. PICK i \in 1..Len(Tail(s)) : x = Tail(s)[i]
      BY <1>1, <2>2 DEF ToSet
    <3>2. i + 1 \in 1..Len(s) /\ x = s[i + 1]
      BY <1>1, <3>1
    <3> QED BY <1>1, <3>2 DEF ToSet
  <2> QED BY <1>3, <2>1, <2>2
<1> QED BY <1>1, <1>2, <1>3

\* Without repetitions the head does not come again.
LEMMA HeadIsNew ==
    ASSUME NEW S, NEW s \in Seq(S), s # <<>>, IsInjective(s)
    PROVE  Head(s) \notin ToSet(Tail(s)) /\ IsInjective(Tail(s))
<1>1. Len(s) \in Nat \ {0} /\ Len(Tail(s)) = Len(s) - 1
      /\ Head(s) = s[1] /\ \A i \in 1..Len(Tail(s)) : Tail(s)[i] = s[i + 1]
      /\ DOMAIN s = 1..Len(s) /\ DOMAIN Tail(s) = 1..Len(Tail(s))
  OBVIOUS
<1>2. \A i, j \in 1..Len(s) : s[i] = s[j] => i = j
  BY <1>1 DEF IsInjective
<1>3. ASSUME Head(s) \in ToSet(Tail(s))
      PROVE  FALSE
  <2>1. PICK i \in 1..Len(Tail(s)) : s[1] = s[i + 1]
    BY <1>1, <1>3 DEF ToSet
  <2>2. i + 1 \in 1..Len(s) /\ 1 \in 1..Len(s) /\ i + 1 # 1
    BY <1>1
  <2> QED BY <1>2, <2>1, <2>2
<1>4. ASSUME NEW i \in 1..Len(Tail(s)), NEW j \in 1..Len(Tail(s)), Tail(s)[i] = Tail(s)[j]
      PROVE  i = j
  <2>1. i + 1 \in 1..Len(s) /\ j + 1 \in 1..Len(s) /\ s[i + 1] = s[j + 1]
    BY <1>1, <1>4
  <2> QED BY <1>2, <2>1
<1>5. IsInjective(Tail(s))
  BY <1>1, <1>4 DEF IsInjective
<1> QED BY <1>3, <1>5

\* The empty sequence has no element.
LEMMA EmptyToSet == ToSet(<<>>) = {}
BY DEF ToSet

\* An order in which to go through a finite set meets each element once.
LEMMA OrderOfSet ==
    ASSUME NEW S, IsFiniteSet(S), NEW s \in SetToSeqs(S)
    PROVE  s \in Seq(S) /\ IsInjective(s) /\ ToSet(s) = S
<1> DEFINE D == 1..Cardinality(S)
<1>1. Cardinality(S) \in Nat
  BY FS_CardinalityType
<1>2. s \in [D -> S] /\ \A i, j \in D : i # j => s[i] # s[j]
  BY DEF SetToSeqs
<1>3. s \in Seq(S)
  BY <1>1, <1>2
<1>4. IsInjective(s)
  BY <1>2 DEF IsInjective
<1>5. s \in Injection(D, S)
  BY <1>2, <1>4 DEF Injection
<1>6. Cardinality(D) = Cardinality(S)
  BY <1>1, FS_Interval
<1>7. s \in Surjection(D, S)
  <2> HIDE DEF D
  <2> QED BY <1>5, <1>6, FS_Injection
<1>8. ToSet(s) = S
  BY <1>2, <1>7 DEF ToSet, Surjection
<1> QED BY <1>3, <1>4, <1>8
-----------------------------------------------------------------------------
\* Counting.

\* The endpoints and metrics of finitely many pods are finitely many.
LEMMA FiniteCounts ==
    ASSUME TrackerTypeOK, NEW V, IsFiniteSet(V)
    PROVE  /\ IsFiniteSet(Tracked(V)) /\ IsFiniteSet(Monitored(V))
           /\ CountsOf(V) \in [pods : Nat, endpoints : Nat, metrics : Nat]
<1>1. IsFiniteSet(V \X Endpoints)
  BY FS_Product, TrackerConstants
<1>2. IsFiniteSet(Tracked(V))
  BY <1>1, FS_Subset DEF Tracked
<1>3. IsFiniteSet(Monitored(V))
  <2> DEFINE f == [x \in Tracked(V) |-> {x} \X MetricsOf(x[1], x[2])]
  <2>1. \A x \in Tracked(V) : IsFiniteSet({x} \X MetricsOf(x[1], x[2]))
    BY LookupFinite, FS_Singleton, FS_Product
  <2>2. DOMAIN f = Tracked(V) /\ \A x \in Tracked(V) : IsFiniteSet(f[x])
    BY <2>1
  <2>3. Monitored(V) = UNION {f[x] : x \in Tracked(V)}
    BY DEF Monitored
  <2> HIDE DEF f
  <2> QED BY <1>2, <2>2, <2>3, FiniteUnion
<1> QED BY <1>2, <1>3, FS_CardinalityType DEF CountsOf

\* One pod more adds its endpoints and its metrics to what was counted.
LEMMA CountOneMore ==
    ASSUME TrackerTypeOK, NEW V, IsFiniteSet(V), NEW p, p \notin V
    PROVE  CountsOf(V \cup {p}) =
              [pods      |-> CountsOf(V).pods + 1,
               endpoints |-> CountsOf(V).endpoints + Cardinality(EndpointsOf(p)),
               metrics   |-> CountsOf(V).metrics + PodCount(p)]
<1> DEFINE W == V \cup {p}
           own == {p} \X EndpointsOf(p)
           ownMetrics == UNION {{x} \X MetricsOf(p, x[2]) : x \in own}
<1>0. IsFiniteSet(EndpointsOf(p)) /\ EndpointsOf(p) \subseteq Endpoints
  BY TrackerConstants, FS_Subset DEF EndpointsOf
<1>1. Cardinality(W) = Cardinality(V) + 1
  BY FS_AddElement
<1>2. Cardinality(Tracked(W)) = Cardinality(Tracked(V)) + Cardinality(EndpointsOf(p))
  <2>1. Tracked(W) = Tracked(V) \cup own
    BY <1>0 DEF Tracked
  <2>2. Tracked(V) \cap own = {}
    BY DEF Tracked
  <2>3. IsFiniteSet({p}) /\ Cardinality({p}) = 1
    BY FS_Singleton
  <2>4. IsFiniteSet(own) /\ Cardinality(own) = Cardinality({p}) * Cardinality(EndpointsOf(p))
    BY <1>0, <2>3, FS_Product
  <2>5. Cardinality(EndpointsOf(p)) \in Nat
    BY <1>0, FS_CardinalityType
  <2>6. Cardinality(own) = Cardinality(EndpointsOf(p))
    BY <2>3, <2>4, <2>5
  <2>7. IsFiniteSet(Tracked(V)) /\ Cardinality(Tracked(V)) \in Nat
    BY FiniteCounts, FS_CardinalityType
  <2> HIDE DEF own, W
  <2>8. Cardinality(Tracked(V) \cup own) = Cardinality(Tracked(V)) + Cardinality(own) - Cardinality({})
    BY <2>2, <2>4, <2>7, FS_Union
  <2> QED BY <2>1, <2>5, <2>6, <2>7, <2>8, FS_EmptySet
<1>3. Cardinality(Monitored(W)) = Cardinality(Monitored(V)) + PodCount(p)
  <2>1. Monitored(W) = Monitored(V) \cup ownMetrics
    BY <1>0 DEF Monitored, Tracked
  <2>2. Monitored(V) \cap ownMetrics = {}
    BY DEF Monitored, Tracked
  <2>3. IsFiniteSet(ownMetrics) /\ Cardinality(ownMetrics) = PodCount(p)
    <3> DEFINE f == [x \in PodMetrics(p) |-> <<<<p, x[1]>>, x[2]>>]
    <3>1. \A x \in PodMetrics(p) : x = <<x[1], x[2]>> /\ x[2] \in MetricsOf(p, x[1])
              /\ x[1] \in EndpointsOf(p)
      BY DEF PodMetrics
    <3>2. f \in [PodMetrics(p) -> ownMetrics]
      BY <3>1
    <3>3. f \in Injection(PodMetrics(p), ownMetrics)
      BY <3>1, <3>2 DEF Injection, IsInjective
    <3>4. ASSUME NEW y \in ownMetrics
          PROVE  \E x \in PodMetrics(p) : f[x] = y
      <4>1. PICK x \in own : y \in {x} \X MetricsOf(p, x[2])
        OBVIOUS
      <4>2. PICK e \in EndpointsOf(p) : x = <<p, e>>
        BY <4>1
      <4>3. PICK m \in MetricsOf(p, e) : y = <<<<p, e>>, m>>
        BY <4>1, <4>2
      <4>4. <<e, m>> \in PodMetrics(p)
        BY <4>2, <4>3 DEF PodMetrics
      <4>5. f[<<e, m>>] = y
        BY <4>3, <4>4
      <4> QED BY <4>4, <4>5
    <3>5. f \in Bijection(PodMetrics(p), ownMetrics)
      BY <3>2, <3>3, <3>4 DEF Bijection, Surjection
    <3> HIDE DEF f, ownMetrics
    <3>6. ExistsBijection(PodMetrics(p), ownMetrics)
      BY <3>5 DEF ExistsBijection
    <3> QED BY <3>6, FS_Bijection, LookupFinite, PodMetricsFinite DEF PodCount
  <2>4. IsFiniteSet(Monitored(V)) /\ Cardinality(Monitored(V)) \in Nat
    BY FiniteCounts, FS_CardinalityType
  <2> HIDE DEF ownMetrics, W
  <2>5. Cardinality(Monitored(V) \cup ownMetrics) =
            Cardinality(Monitored(V)) + Cardinality(ownMetrics) - Cardinality({})
    BY <2>2, <2>3, <2>4, FS_Union
  <2>6. PodCount(p) \in Nat
    BY LookupFinite, PodMetricsFinite
  <2> QED BY <2>1, <2>3, <2>4, <2>5, <2>6, FS_EmptySet
<1> QED BY <1>1, <1>2, <1>3 DEF CountsOf

\* Having visited all pods of the map, GetCounts has found all there is.
LEMMA AllCounted ==
    ASSUME TrackerTypeOK
    PROVE  CountsOf(DOMAIN allMetrics) = Counts
<1> DEFINE tracked == {x \in Pods \X Endpoints : x[2] \in EndpointsOf(x[1])}
<1>1. DOMAIN allMetrics \subseteq Pods
  BY MapOfFacts DEF TrackerTypeOK
<1>2. Tracked(DOMAIN allMetrics) = tracked
  BY <1>1 DEF Tracked, EndpointsOf
<1> QED BY <1>2 DEF CountsOf, Monitored, Counts

\* Nothing has been visited, nothing counted.
LEMMA NothingCounted == CountsOf({}) = NoCounts
<1>1. Tracked({}) = {} /\ Monitored({}) = {}
  BY DEF Tracked, Monitored
<1> QED BY <1>1, FS_EmptySet DEF CountsOf, NoCounts

\* The metrics of the pods visited are within the limit of each.
LEMMA CountWithinLimits ==
    ASSUME TrackerTypeOK, PodLimit, NEW p \in Pods, NEW n \in Nat, NEW k \in Nat, n <= k * MaxMetricsPerPod
    PROVE  n + PodCount(p) <= (k + 1) * MaxMetricsPerPod
<1>1. PodCount(p) \in Nat /\ PodCount(p) <= MaxMetricsPerPod /\ MaxMetricsPerPod \in Nat
  BY LookupFinite, PodMetricsFinite, TrackerConstants DEF PodLimit
<1>2. (k + 1) * MaxMetricsPerPod = k * MaxMetricsPerPod + MaxMetricsPerPod
  BY <1>1
<1>3. k * MaxMetricsPerPod \in Nat
  BY <1>1
<1> QED BY <1>1, <1>2, <1>3
-----------------------------------------------------------------------------
\* Tracking.

\* The operators of the atomic tracker count like the others.
LEMMA SameCardinality == \A S : Abs!Cardinality(S) = Cardinality(S)
BY DEF Cardinality, Abs!Cardinality

\* Between operations the map is that of the atomic tracker.
LEMMA CleanLookups ==
    ASSUME allMetrics = committed
    PROVE  /\ \A p : Abs!EndpointsOf(p) = EndpointsOf(p)
           /\ \A p, e : Abs!MetricsOf(p, e) = MetricsOf(p, e)
           /\ \A p : Abs!PodCount(p) = PodCount(p)
           /\ \A cid, ids : Abs!Track(cid, ids) = Track(cid, ids)
           /\ Abs!Counts = Counts
<1>1. \A p : Abs!EndpointsOf(p) = EndpointsOf(p)
  BY DEF Abs!EndpointsOf, EndpointsOf
<1>2. \A p, e : Abs!MetricsOf(p, e) = MetricsOf(p, e)
  BY <1>1 DEF Abs!MetricsOf, MetricsOf
<1>3. ASSUME NEW p PROVE Abs!PodMetrics(p) = PodMetrics(p)
  <2>1. \A x : x \in PodMetrics(p) <=> \E e \in EndpointsOf(p) : x \in {e} \X MetricsOf(p, e)
    BY DEF PodMetrics
  <2>2. \A x : x \in Abs!PodMetrics(p) <=> \E e \in Abs!EndpointsOf(p) : x \in {e} \X Abs!MetricsOf(p, e)
    BY DEF Abs!PodMetrics
  <2> QED BY <1>1, <1>2, <2>1, <2>2
<1>4. \A p : Abs!PodCount(p) = PodCount(p)
  BY <1>3, SameCardinality DEF Abs!PodCount, PodCount
<1>5. \A cid, ids : Abs!Track(cid, ids) = Track(cid, ids)
  BY <1>1, <1>2 DEF Abs!Track, Track
<1>6. Abs!Counts = Counts
  BY <1>1, <1>2, SameCardinality DEF Abs!Counts, Counts
<1> QED BY <1>1, <1>2, <1>4, <1>5, <1>6

\* The operators of the atomic tracker mean the same sets by finite.
LEMMA SameFinite == \A S : Abs!FiniteSubsets(S) = FiniteSubsets(S)
BY DEF FiniteSubsets, Abs!FiniteSubsets, IsFiniteSet, Abs!IsFiniteSet

\* What was tracked when an addition began can be counted.
LEMMA FoundFinite ==
    ASSUME TrackerTypeOK, NEW cid, NEW K, allMetrics = Abs!Track(cid, K)
    PROVE  IsFiniteSet(Abs!PodMetrics(cid.pod)) /\ Abs!PodCount(cid.pod) \in Nat
<1> DEFINE p == cid.pod
<1>1. DOMAIN allMetrics = DOMAIN committed \cup {p} /\ DOMAIN allMetrics[p] = Abs!EndpointsOf(p) \cup {cid.endpoint}
  BY DEF Abs!Track
<1>2. Abs!EndpointsOf(p) \subseteq EndpointsOf(p)
  BY <1>1 DEF Abs!EndpointsOf, EndpointsOf
<1>3. ASSUME NEW e \in Abs!EndpointsOf(p)
      PROVE  Abs!MetricsOf(p, e) \subseteq MetricsOf(p, e)
  <2>1. allMetrics[p][e] = IF e = cid.endpoint THEN Abs!MetricsOf(p, e) \cup K ELSE committed[p][e]
    BY <1>1 DEF Abs!Track
  <2>2. MetricsOf(p, e) = allMetrics[p][e] /\ Abs!MetricsOf(p, e) = committed[p][e]
    BY <1>2 DEF MetricsOf, Abs!MetricsOf
  <2> QED BY <2>1, <2>2
<1>4. Abs!PodMetrics(p) \subseteq PodMetrics(p)
  <2>1. \A x : x \in PodMetrics(p) <=> \E e \in EndpointsOf(p) : x \in {e} \X MetricsOf(p, e)
    BY DEF PodMetrics
  <2>2. \A x : x \in Abs!PodMetrics(p) <=> \E e \in Abs!EndpointsOf(p) : x \in {e} \X Abs!MetricsOf(p, e)
    BY DEF Abs!PodMetrics
  <2> QED BY <1>2, <1>3, <2>1, <2>2
<1>5. IsFiniteSet(PodMetrics(p))
  BY LookupFinite, PodMetricsFinite
<1> HIDE DEF p
<1>6. IsFiniteSet(Abs!PodMetrics(p))
  BY <1>4, <1>5, FS_Subset
<1> QED BY <1>6, SameCardinality, FS_CardinalityType DEF Abs!PodCount, p

\* Tracking more of an endpoint adds to what is tracked of it.
LEMMA TrackMore ==
    ASSUME NEW cid \in CollectorID, NEW K \in FiniteSubsets(MetricIds), allMetrics = Abs!Track(cid, K)
    PROVE  /\ MetricsOf(cid.pod, cid.endpoint) = Abs!MetricsOf(cid.pod, cid.endpoint) \cup K
           /\ \A m \in MetricIds : Track(cid, {m}) = Abs!Track(cid, K \cup {m})
<1> DEFINE old == Abs!MetricsOf(cid.pod, cid.endpoint)
<1>1. cid.pod \in Pods /\ cid.endpoint \in Endpoints
  BY DEF CollectorID
<1>2. DOMAIN allMetrics = DOMAIN committed \cup {cid.pod}
  BY DEF Abs!Track
<1>3. DOMAIN allMetrics[cid.pod] = Abs!EndpointsOf(cid.pod) \cup {cid.endpoint}
  BY <1>2 DEF Abs!Track
<1>4. EndpointsOf(cid.pod) = Abs!EndpointsOf(cid.pod) \cup {cid.endpoint}
  BY <1>1, <1>2, <1>3 DEF EndpointsOf, Abs!EndpointsOf
<1>5. allMetrics[cid.pod][cid.endpoint] = old \cup K
  BY <1>2, <1>3 DEF Abs!Track
<1>6. MetricsOf(cid.pod, cid.endpoint) = old \cup K
  BY <1>4, <1>5 DEF MetricsOf, Abs!MetricsOf
<1>7. ASSUME NEW m \in MetricIds
      PROVE  Track(cid, {m}) = Abs!Track(cid, K \cup {m})
  <2>1. \A e \in Abs!EndpointsOf(cid.pod) \ {cid.endpoint} : allMetrics[cid.pod][e] = committed[cid.pod][e]
    BY <1>2, <1>3 DEF Abs!Track
  <2>2. \A p \in DOMAIN committed \ {cid.pod} : allMetrics[p] = committed[p]
    BY <1>2 DEF Abs!Track
  <2>3. (old \cup K) \cup {m} = old \cup (K \cup {m})
    OBVIOUS
  <2>4. [e \in EndpointsOf(cid.pod) \cup {cid.endpoint} |->
            IF e = cid.endpoint THEN MetricsOf(cid.pod, e) \cup {m} ELSE allMetrics[cid.pod][e]]
        = [e \in Abs!EndpointsOf(cid.pod) \cup {cid.endpoint} |->
            IF e = cid.endpoint THEN Abs!MetricsOf(cid.pod, e) \cup (K \cup {m}) ELSE committed[cid.pod][e]]
    BY <1>4, <1>6, <2>1, <2>3
  <2> QED BY <1>2, <2>2, <2>4 DEF Track, Abs!Track
<1> QED BY <1>6, <1>7

\* What an endpoint has already can be tracked again.
LEMMA TrackAgain ==
    ASSUME NEW cid, NEW K, NEW L,
           Abs!MetricsOf(cid.pod, cid.endpoint) \cup K = Abs!MetricsOf(cid.pod, cid.endpoint) \cup L
    PROVE  Abs!Track(cid, K) = Abs!Track(cid, L)
BY DEF Abs!Track

\* Registering an endpoint is an addition of no metric.
LEMMA TrackNone ==
    ASSUME TrackerTypeOK, PodLimit, NEW cid \in CollectorID, allMetrics' = Track(cid, {})
    PROVE  /\ AddMetricsFromCollector(cid, {}, {})
           /\ PodCount(cid.pod)' = PodCount(cid.pod)
<1>1. cid.pod \in Pods /\ PodCount(cid.pod) \in Nat /\ MaxMetricsPerPod \in Nat
      /\ PodCount(cid.pod) <= MaxMetricsPerPod
  BY LookupFinite, PodMetricsFinite, TrackerConstants DEF CollectorID, PodLimit
<1>2. AddMetricsFromCollector(cid, {}, {})
  BY <1>1, FS_EmptySet DEF AddMetricsFromCollector, Overflows, Room
<1>3. PodMetrics(cid.pod)' = PodMetrics(cid.pod)
  <2>1. {} \in FiniteSubsets(MetricIds) /\ {cid.endpoint} \X ({} \ {}) = {}
    BY NothingIsFinite
  <2>2. PodMetrics(cid.pod)' = PodMetrics(cid.pod) \cup ({cid.endpoint} \X ({} \ {}))
    BY <1>1, <1>2, <2>1, AddChanges
  <2> QED BY <2>1, <2>2
<1> QED BY <1>2, <1>3 DEF PodCount

\* Below the limit, one more metric is an addition without overflow.
LEMMA TrackOne ==
    ASSUME TrackerTypeOK, NEW cid \in CollectorID, NEW m \in MetricIds, allMetrics' = Track(cid, {m}),
           m \notin MetricsOf(cid.pod, cid.endpoint), PodCount(cid.pod) < MaxMetricsPerPod
    PROVE  /\ AddMetricsFromCollector(cid, {m}, {})
           /\ PodCount(cid.pod)' = PodCount(cid.pod) + 1
<1>1. cid.pod \in Pods /\ cid.endpoint \in Endpoints /\ PodCount(cid.pod) \in Nat
      /\ MaxMetricsPerPod \in Nat /\ IsFiniteSet(PodMetrics(cid.pod))
  BY LookupFinite, PodMetricsFinite, TrackerConstants DEF CollectorID
<1>2. AddMetricsFromCollector(cid, {m}, {})
  <2>1. {m} \ MetricsOf(cid.pod, cid.endpoint) = {m} /\ Cardinality({m}) = 1
    BY FS_Singleton
  <2>2. {} \in Overflows(cid, {m})
    BY <1>1, <2>1 DEF Overflows, Room
  <2> QED BY <2>2 DEF AddMetricsFromCollector
<1>3. PodMetrics(cid.pod)' = PodMetrics(cid.pod) \cup {<<cid.endpoint, m>>}
  <2>1. {cid.endpoint} \X ({m} \ {}) = {<<cid.endpoint, m>>}
    OBVIOUS
  <2>2. {m} \in FiniteSubsets(MetricIds)
    BY FS_Singleton DEF FiniteSubsets
  <2> QED BY <1>1, <1>2, <2>1, <2>2, AddChanges
<1>4. <<cid.endpoint, m>> \notin PodMetrics(cid.pod)
  BY PodMetricsPairs
<1>5. Cardinality(PodMetrics(cid.pod)') = Cardinality(PodMetrics(cid.pod)) + 1
  BY <1>1, <1>3, <1>4, FS_AddElement
<1> QED BY <1>2, <1>5 DEF PodCount

\* Deleting an endpoint keeps the map well-typed and adds no metric.
LEMMA EndpointDeleted ==
    ASSUME MapOK, NEW cid \in CollectorID,
           allMetrics' = [p \in DOMAIN allMetrics |->
                IF p = cid.pod THEN [e \in EndpointsOf(cid.pod) \ {cid.endpoint} |-> allMetrics[p][e]]
                ELSE allMetrics[p]]
    PROVE  MapOK' /\ EndpointsOf(cid.pod)' = EndpointsOf(cid.pod) \ {cid.endpoint}
<1> DEFINE left == EndpointsOf(cid.pod) \ {cid.endpoint}
           inner == [e \in left |-> allMetrics[cid.pod][e]]
<1>0. cid.pod \in Pods /\ DOMAIN allMetrics' = DOMAIN allMetrics /\ DOMAIN allMetrics \subseteq Pods
  BY MapOfFacts DEF CollectorID, MapOK, TrackerTypeOK
<1>1. ASSUME cid.pod \in DOMAIN allMetrics
      PROVE  inner \in MapOf(Endpoints, FiniteSubsets(MetricIds))
  <2>1. \A e \in left : allMetrics[cid.pod][e] \in FiniteSubsets(MetricIds)
    BY <1>0, <1>1, Lookup DEF MapOK
  <2>2. left \subseteq Endpoints
    BY DEF EndpointsOf
  <2>3. inner \in [left -> FiniteSubsets(MetricIds)]
    BY <2>1
  <2> HIDE DEF inner, left
  <2> QED BY <2>2, <2>3, MapOfIntro
<1>2. allMetrics' = [p \in DOMAIN allMetrics |-> IF p = cid.pod THEN inner ELSE allMetrics[p]]
  OBVIOUS
<1> HIDE DEF inner
<1>3. \A p \in DOMAIN allMetrics : allMetrics[p] \in MapOf(Endpoints, FiniteSubsets(MetricIds))
  BY MapOfFacts DEF MapOK, TrackerTypeOK
<1>4. allMetrics' \in [DOMAIN allMetrics -> MapOf(Endpoints, FiniteSubsets(MetricIds))]
  BY <1>1, <1>2, <1>3
<1>5. TrackerTypeOK'
  BY <1>0, <1>4, MapOfIntro DEF TrackerTypeOK
<1>6. ASSUME NEW p \in Pods
      PROVE  /\ EndpointsOf(p)' = IF p = cid.pod THEN left ELSE EndpointsOf(p)
             /\ \A e \in EndpointsOf(p)' : MetricsOf(p, e)' = MetricsOf(p, e)
  <2>1. EndpointsOf(p)' = IF p = cid.pod THEN left ELSE EndpointsOf(p)
    BY DEF EndpointsOf
  <2>2. ASSUME NEW e \in EndpointsOf(p)'
        PROVE  MetricsOf(p, e)' = MetricsOf(p, e)
    <3>1. p \in DOMAIN allMetrics /\ e \in DOMAIN allMetrics'[p] /\ e \in EndpointsOf(p)
      BY <2>1 DEF EndpointsOf
    <3>2. allMetrics'[p][e] = allMetrics[p][e]
      BY <2>1, <3>1 DEF EndpointsOf
    <3> QED BY <3>1, <3>2 DEF MetricsOf
  <2> QED BY <2>1, <2>2
<1>7. \A p \in Pods : PodMetrics(p)' \subseteq PodMetrics(p)
  <2>1. ASSUME NEW p \in Pods, NEW e \in Endpoints
        PROVE  MetricsOf(p, e)' \subseteq MetricsOf(p, e)
    BY <1>6 DEF MetricsOf
  <2>2. ASSUME NEW p \in Pods PROVE PodMetrics(p)' \subseteq PodMetrics(p)
    BY <2>1, MetricsShrink
  <2> QED BY <2>2
<1>8. PodLimit'
  BY <1>7, ShrinkKeepsLimit DEF MapOK
<1> QED BY <1>0, <1>5, <1>6, <1>8 DEF MapOK

\* So does deleting a pod.
LEMMA PodDeleted ==
    ASSUME MapOK, NEW q, allMetrics' = [p \in DOMAIN allMetrics \ {q} |-> allMetrics[p]]
    PROVE  MapOK'
<1>1. DOMAIN allMetrics \ {q} \subseteq Pods
      /\ \A p \in DOMAIN allMetrics : allMetrics[p] \in MapOf(Endpoints, FiniteSubsets(MetricIds))
  BY MapOfFacts DEF MapOK, TrackerTypeOK
<1>2. allMetrics' \in [DOMAIN allMetrics \ {q} -> MapOf(Endpoints, FiniteSubsets(MetricIds))]
  BY <1>1
<1>3. TrackerTypeOK'
  BY <1>1, <1>2, MapOfIntro DEF TrackerTypeOK
<1>4. \A p : EndpointsOf(p)' = IF p = q THEN {} ELSE EndpointsOf(p)
  BY DEF EndpointsOf
<1>5. \A p \in Pods : PodMetrics(p)' \subseteq PodMetrics(p)
  <2>1. ASSUME NEW p \in Pods, NEW e \in Endpoints
        PROVE  MetricsOf(p, e)' \subseteq MetricsOf(p, e)
    <3>1. CASE p = q
      BY <1>4, <3>1 DEF MetricsOf
    <3>2. CASE p # q
      <4>1. EndpointsOf(p)' = EndpointsOf(p) /\ (p \in DOMAIN allMetrics => allMetrics'[p] = allMetrics[p])
        BY <1>4, <3>2
      <4> QED BY <4>1 DEF MetricsOf, EndpointsOf
    <3> QED BY <3>1, <3>2
  <2>2. ASSUME NEW p \in Pods PROVE PodMetrics(p)' \subseteq PodMetrics(p)
    BY <2>1, MetricsShrink
  <2> QED BY <2>2
<1>6. PodLimit'
  BY <1>5, ShrinkKeepsLimit DEF MapOK
<1>7. IsFiniteSet(DOMAIN allMetrics)'
  <2>1. DOMAIN allMetrics' = DOMAIN allMetrics \ {q}
    OBVIOUS
  <2> QED BY <2>1, FS_RemoveElement DEF MapOK
<1> QED BY <1>3, <1>6, <1>7 DEF MapOK

\* And a step of the atomic tracker.
LEMMA TrackerKeepsMap ==
    ASSUME MapOK, NEW cid \in CollectorID, NEW ids \in FiniteSubsets(MetricIds),
           AddMetricsFromCollector(cid, ids, {})
    PROVE  MapOK'
<1>1. TrackerNext
  BY DEF TrackerNext
<1> QED BY <1>1, TypeStep, LookupFinite, AddKeepsLimit, PodsStayFinite DEF MapOK, FiniteSubsets
-----------------------------------------------------------------------------
\* The steps of a thread inside its operation: where it gets, and that the map
\* stays a map within the limits.

\* What a thread inside an operation finds.
LEMMA Within ==
    ASSUME IInv, NEW t \in Threads
    PROVE  /\ ThreadOK(call[t], pc[t], todo[t], count[t], result[t])
           /\ call[t].op \in {"add", "purge"} => call[t].cid \in CollectorID /\ call[t].cid \in Collectors
           /\ call[t].op = "add" => call[t].metrics \in Seq(MetricIds)
           /\ pc[t] = "begin" /\ Writes(call[t]) => allMetrics = committed
<1>1. ThreadOK(call[t], pc[t], todo[t], count[t], result[t])
  BY DEF IInv, Threading
<1>2. call[t].op \in {"add", "purge"} => call[t].cid \in CollectorID /\ call[t].cid \in Collectors
  BY <1>1, LockingConstants DEF ThreadOK, Calls, NoCall
<1>3. call[t].op = "add" => call[t].metrics \in Seq(MetricIds)
  BY <1>1, LockingConstants DEF ThreadOK, Calls, NoCall
<1>4. pc[t] = "begin" /\ Writes(call[t]) => allMetrics = committed
  BY DEF IInv, LockOK, Inside, Clean
<1> QED BY <1>1, <1>2, <1>3, <1>4

\* An addition counts the pod's metrics and registers its endpoint.
LEMMA AddBegins ==
    ASSUME IInv, NEW t \in Threads, AddBegin(t)
    PROVE  MapOK' /\ ThreadOK(call[t], pc[t], todo[t], count[t], result[t])'
<1> PICK c, n : c = call[t] /\ n = count'[t]
  OBVIOUS
<1> DEFINE cid == c.cid
<1>1. ThreadOK(c, "begin", todo[t], count[t], result[t]) /\ c.op = "add" /\ cid \in CollectorID
      /\ c.metrics \in Seq(MetricIds) /\ allMetrics = committed
  BY Within DEF AddBegin, Writes
<1>2. /\ call'[t] = c /\ pc'[t] = "loop" /\ todo'[t] = c.metrics /\ result'[t] = {}
      /\ allMetrics' = Track(cid, {}) /\ n = [NoCounts EXCEPT !.metrics = PodCount(cid.pod)]
      /\ UNCHANGED committed
  BY <1>1 DEF AddBegin, IInv, Functional, ThreadOK
<1>3. AddMetricsFromCollector(cid, {}, {}) /\ PodCount(cid.pod)' = PodCount(cid.pod)
  BY <1>1, <1>2, TrackNone DEF IInv, MapOK
<1>4. MapOK'
  BY <1>1, <1>3, NothingIsFinite, TrackerKeepsMap DEF IInv
<1>5. PodCount(cid.pod) \in Nat
  BY LookupFinite, PodMetricsFinite DEF IInv, MapOK
<1>6. Adding(c, c.metrics, n, {})'
  <2>1. allMetrics' = Abs!Track(cid, {}) /\ Abs!PodCount(cid.pod) = PodCount(cid.pod)
    BY <1>1, <1>2, CleanLookups
  <2>2. Abs!Track(cid, {})' = Abs!Track(cid, {}) /\ Abs!PodCount(cid.pod)' = Abs!PodCount(cid.pod)
    BY <1>2 DEF Abs!Track, Abs!PodCount, Abs!PodMetrics, Abs!MetricsOf, Abs!EndpointsOf
  <2>3. n.metrics = PodCount(cid.pod) + Cardinality({})
    BY <1>2, <1>5, FS_EmptySet DEF NoCounts
  <2>4. n.metrics = PodCount(cid.pod)
    BY <1>2 DEF NoCounts
  <2>5. \A old : ({} \ {}) \ old = {}
    OBVIOUS
  <2> DEFINE old == Abs!MetricsOf(cid.pod, cid.endpoint)'
  <2>6. /\ {} \in FiniteSubsets(MetricIds)
        /\ c.metrics \in Seq(MetricIds)
        /\ ToSet(c.metrics) = {} \cup ToSet(c.metrics)
        /\ {} \subseteq {} \ old
        /\ allMetrics' = Abs!Track(cid, {} \ {})'
        /\ n.metrics = Abs!PodCount(cid.pod)' + Cardinality(({} \ {}) \ old)
        /\ n.metrics = PodCount(cid.pod)'
    BY <1>1, <1>2, <1>3, <2>1, <2>2, <2>3, <2>4, <2>5, NothingIsFinite
  <2> HIDE DEF old
  <2> QED BY <2>6 DEF Adding, old
<1>7. ThreadOK(c, "loop", c.metrics, n, {})'
  BY <1>1, <1>2, <1>5, <1>6 DEF ThreadOK, NoCall, NoCounts
<1> QED BY <1>2, <1>4, <1>7

\* One more ID of an addition: tracked already, added or refused.
LEMMA AddGoesOn ==
    ASSUME IInv, NEW t \in Threads, AddMetric(t)
    PROVE  MapOK' /\ ThreadOK(call[t], pc[t], todo[t], count[t], result[t])'
<1> PICK c, m, rest, k, r, n : /\ c = call[t] /\ m = Head(todo[t]) /\ rest = Tail(todo[t])
                               /\ k = count[t] /\ r = result[t] /\ n = count'[t]
  OBVIOUS
<1> DEFINE cid == c.cid
<1> PICK old : old = Abs!MetricsOf(cid.pod, cid.endpoint)
  OBVIOUS
<1>1. ThreadOK(c, "loop", todo[t], k, r) /\ c.op = "add" /\ cid \in CollectorID /\ cid.pod \in Pods
      /\ k \in [pods : Nat, endpoints : Nat, metrics : Nat] /\ todo[t] # <<>>
  BY Within DEF AddMetric, ThreadOK, CollectorID
<1>2. PICK done \in FiniteSubsets(MetricIds) :
            /\ todo[t] \in Seq(MetricIds)
            /\ ToSet(c.metrics) = done \cup ToSet(todo[t])
            /\ r \subseteq done \ old
            /\ allMetrics = Abs!Track(cid, done \ r)
            /\ k.metrics = Abs!PodCount(cid.pod) + Cardinality((done \ r) \ old)
            /\ k.metrics = PodCount(cid.pod)
            /\ r # {} => k.metrics = MaxMetricsPerPod
  BY <1>1 DEF ThreadOK, Adding
<1>3. m \in MetricIds /\ rest \in Seq(MetricIds) /\ ToSet(todo[t]) = {m} \cup ToSet(rest)
  BY <1>1, <1>2, HeadAndTail
<1>4. MetricsOf(cid.pod, cid.endpoint) = old \cup (done \ r)
      /\ Track(cid, {m}) = Abs!Track(cid, (done \ r) \cup {m})
  <2> DEFINE K == done \ r
  <2>1. K \in FiniteSubsets(MetricIds) /\ allMetrics = Abs!Track(cid, K) /\ cid \in CollectorID
    BY <1>1, <1>2, FS_Subset DEF FiniteSubsets
  <2> HIDE DEF K, cid
  <2>2. /\ MetricsOf(cid.pod, cid.endpoint) = Abs!MetricsOf(cid.pod, cid.endpoint) \cup K
        /\ Track(cid, {m}) = Abs!Track(cid, K \cup {m})
    BY <1>3, <2>1, TrackMore
  <2> QED BY <2>2 DEF K, cid
<1>5. MapOK /\ PodCount(cid.pod) \in Nat /\ PodCount(cid.pod) <= MaxMetricsPerPod /\ MaxMetricsPerPod \in Nat
  BY <1>1, LookupFinite, PodMetricsFinite, TrackerConstants DEF IInv, MapOK, PodLimit
<1>6. /\ call'[t] = c /\ pc'[t] = "loop" /\ todo'[t] = rest /\ UNCHANGED committed
  BY DEF AddMetric, IInv, Functional
<1>7. /\ \A K : Abs!Track(cid, K)' = Abs!Track(cid, K)
      /\ Abs!PodCount(cid.pod)' = Abs!PodCount(cid.pod)
      /\ Abs!MetricsOf(cid.pod, cid.endpoint)' = old
  BY <1>6 DEF Abs!Track, Abs!PodCount, Abs!PodMetrics, Abs!MetricsOf, Abs!EndpointsOf
<1> DEFINE all == done \cup {m}
<1>8. all \in FiniteSubsets(MetricIds) /\ ToSet(c.metrics) = all \cup ToSet(rest)
  BY <1>2, <1>3, FS_AddElement DEF FiniteSubsets
<1>9. ASSUME NEW o, result'[t] = o, o \subseteq all \ old, MapOK',
             allMetrics' = Abs!Track(cid, all \ o),
             n \in [pods : Nat, endpoints : Nat, metrics : Nat],
             n.metrics = Abs!PodCount(cid.pod) + Cardinality((all \ o) \ old),
             n.metrics = PodCount(cid.pod)', o # {} => n.metrics = MaxMetricsPerPod
      PROVE  MapOK' /\ ThreadOK(call[t], pc[t], todo[t], count[t], result[t])'
  <2> HIDE DEF all
  <2>1. Adding(c, rest, n, o)'
    BY <1>3, <1>7, <1>8, <1>9 DEF Adding
  <2>2. ThreadOK(c, "loop", rest, n, o)'
    BY <1>1, <1>6, <1>8, <1>9, <2>1 DEF ThreadOK, FiniteSubsets
  <2> QED BY <1>6, <1>9, <2>2
<1>10. CASE m \in MetricsOf(cid.pod, cid.endpoint) /\ UNCHANGED <<allMetrics, count, result>>
  <2>1. all \ r = (done \ r) \cup {m} /\ old \cup (all \ r) = old \cup (done \ r)
        /\ (all \ r) \ old = (done \ r) \ old
    BY <1>2, <1>4, <1>10
  <2>2. allMetrics' = Abs!Track(cid, all \ r)
    <3>1. Abs!Track(cid, all \ r) = Abs!Track(cid, done \ r)
      BY <2>1, TrackAgain
    <3> QED BY <1>2, <1>10, <3>1
  <2>3. MapOK' /\ PodCount(cid.pod)' = PodCount(cid.pod)
    BY <1>5, <1>10 DEF MapOK, TrackerTypeOK, PodLimit, PodCount, PodMetrics, MetricsOf, EndpointsOf
  <2>4. r \subseteq all \ old /\ n = k /\ result'[t] = r
    BY <1>2, <1>10
  <2> HIDE DEF all
  <2> QED BY <1>1, <1>2, <1>9, <2>1, <2>2, <2>3, <2>4
<1>11. CASE /\ m \notin MetricsOf(cid.pod, cid.endpoint)
            /\ k.metrics < MaxMetricsPerPod
            /\ allMetrics' = Track(cid, {m})
            /\ count' = [count EXCEPT ![t].metrics = @ + 1]
            /\ UNCHANGED result
  <2>1. r = {}
    BY <1>2, <1>5, <1>11
  <2>2. all \ r = (done \ r) \cup {m} /\ (all \ r) \ old = ((done \ r) \ old) \cup {m}
        /\ m \notin (done \ r) \ old
    BY <1>4, <1>11, <2>1
  <2>3. n = [k EXCEPT !.metrics = k.metrics + 1] /\ result'[t] = r
    BY <1>11 DEF IInv, Functional
  <2>4. Cardinality((all \ r) \ old) = Cardinality((done \ r) \ old) + 1
        /\ Cardinality((done \ r) \ old) \in Nat
    <3> DEFINE new == (done \ r) \ old
    <3>1. IsFiniteSet(new)
      BY <1>2, FS_Subset DEF FiniteSubsets
    <3>2. m \notin new /\ (all \ r) \ old = new \cup {m}
      BY <2>2
    <3> HIDE DEF all, new
    <3>3. Cardinality(new \cup {m}) = Cardinality(new) + 1 /\ Cardinality(new) \in Nat
      BY <3>1, <3>2, FS_AddElement, FS_CardinalityType
    <3> QED BY <3>2, <3>3 DEF new
  <2>5. AddMetricsFromCollector(cid, {m}, {}) /\ PodCount(cid.pod)' = PodCount(cid.pod) + 1
    BY <1>1, <1>2, <1>3, <1>5, <1>11, TrackOne DEF MapOK
  <2>6. MapOK'
    <3>1. {m} \in FiniteSubsets(MetricIds)
      BY <1>3, FS_Singleton DEF FiniteSubsets
    <3> QED BY <1>1, <1>5, <2>5, <3>1, TrackerKeepsMap
  <2>7. Abs!PodCount(cid.pod) \in Nat
    BY <1>2, <1>5, FoundFinite DEF MapOK
  <2>8. n \in [pods : Nat, endpoints : Nat, metrics : Nat] /\ n.metrics = k.metrics + 1
    BY <1>1, <2>3
  <2>9. n.metrics = Abs!PodCount(cid.pod) + Cardinality((all \ r) \ old)
    BY <1>2, <2>4, <2>7, <2>8
  <2>10. n.metrics = PodCount(cid.pod)'
    BY <1>2, <2>5, <2>8
  <2>11. allMetrics' = Abs!Track(cid, all \ r)
    BY <1>4, <1>11, <2>2
  <2>12. r \subseteq all \ old
    BY <2>1
  <2> HIDE DEF all
  <2> QED BY <1>9, <2>1, <2>3, <2>6, <2>8, <2>9, <2>10, <2>11, <2>12
<1>12. CASE /\ m \notin MetricsOf(cid.pod, cid.endpoint)
            /\ k.metrics >= MaxMetricsPerPod
            /\ result' = [result EXCEPT ![t] = @ \cup {m}]
            /\ UNCHANGED <<allMetrics, count>>
  <2> DEFINE o == r \cup {m}
  <2>1. result'[t] = o /\ n = k
    BY <1>12 DEF IInv, Functional
  <2>2. all \ o = done \ r /\ o \subseteq all \ old
    BY <1>2, <1>4, <1>12
  <2>3. MapOK' /\ PodCount(cid.pod)' = PodCount(cid.pod)
    BY <1>5, <1>12 DEF MapOK, TrackerTypeOK, PodLimit, PodCount, PodMetrics, MetricsOf, EndpointsOf
  <2>4. k.metrics = MaxMetricsPerPod
    BY <1>2, <1>5, <1>12
  <2> HIDE DEF all, o
  <2> QED BY <1>1, <1>2, <1>9, <1>12, <2>1, <2>2, <2>3, <2>4
<1> QED BY <1>10, <1>11, <1>12 DEF AddMetric

\* How far a loop is depends on nothing but the maps.
LEMMA SameMaps ==
    ASSUME UNCHANGED <<allMetrics, committed>>, NEW c, NEW td, NEW n, NEW r
    PROVE  /\ Adding(c, td, n, r) => Adding(c, td, n, r)'
           /\ Counting(td, n) => Counting(td, n)'
           /\ EndpointPurged(c) => EndpointPurged(c)'
           /\ PodPurged(c) => PodPurged(c)'
<1>1. \A p : EndpointsOf(p)' = EndpointsOf(p) /\ Abs!EndpointsOf(p)' = Abs!EndpointsOf(p)
  BY DEF EndpointsOf, Abs!EndpointsOf
<1>2. \A p, e : MetricsOf(p, e)' = MetricsOf(p, e) /\ Abs!MetricsOf(p, e)' = Abs!MetricsOf(p, e)
  BY <1>1 DEF MetricsOf, Abs!MetricsOf
<1>3. \A p : PodCount(p)' = PodCount(p) /\ Abs!PodCount(p)' = Abs!PodCount(p)
  BY DEF PodCount, PodMetrics, MetricsOf, EndpointsOf, Abs!PodCount, Abs!PodMetrics, Abs!MetricsOf, Abs!EndpointsOf
<1>4. \A cid, ids : Abs!Track(cid, ids)' = Abs!Track(cid, ids)
  BY <1>1, <1>2 DEF Abs!Track
<1>5. Adding(c, td, n, r) => Adding(c, td, n, r)'
  BY <1>2, <1>3, <1>4 DEF Adding
<1>6. Counting(td, n) => Counting(td, n)'
  BY DEF Counting, CountsOf, Tracked, Monitored, MetricsOf, EndpointsOf
<1> QED BY <1>1, <1>5, <1>6 DEF EndpointPurged, PodPurged

\* A purge deletes the endpoint.
LEMMA PurgeBegins ==
    ASSUME IInv, NEW t \in Threads, PurgeEndpoint(t)
    PROVE  MapOK' /\ ThreadOK(call[t], pc[t], todo[t], count[t], result[t])'
<1> PICK c, td, n, r : c = call[t] /\ td = todo[t] /\ n = count[t] /\ r = result[t]
  OBVIOUS
<1> DEFINE cid == c.cid
<1>1. ThreadOK(c, "begin", td, n, r) /\ c.op = "purge" /\ cid \in CollectorID /\ allMetrics = committed
  BY Within DEF PurgeEndpoint, Writes
<1>2. /\ call'[t] = c /\ pc'[t] = "loop" /\ todo'[t] = td /\ count'[t] = n /\ result'[t] = r
      /\ UNCHANGED committed
      /\ allMetrics' = [p \in DOMAIN allMetrics |->
            IF p = cid.pod THEN [e \in EndpointsOf(cid.pod) \ {cid.endpoint} |-> allMetrics[p][e]]
            ELSE allMetrics[p]]
  BY DEF PurgeEndpoint, IInv, Functional
<1>3. MapOK'
  BY <1>1, <1>2, EndpointDeleted DEF IInv
<1>4. EndpointPurged(c)'
  <2>1. Abs!EndpointsOf(cid.pod)' = EndpointsOf(cid.pod)
    BY <1>1, <1>2 DEF EndpointsOf, Abs!EndpointsOf
  <2> QED BY <1>1, <1>2, <2>1 DEF EndpointPurged
<1>5. ThreadOK(c, "loop", td, n, r)'
  BY <1>1, <1>4 DEF ThreadOK, NoCall
<1> QED BY <1>2, <1>3, <1>5

\* Then it deletes the pod, if the endpoint was its last one.
LEMMA PurgeGoesOn ==
    ASSUME IInv, NEW t \in Threads, PurgePod(t)
    PROVE  MapOK' /\ ThreadOK(call[t], pc[t], todo[t], count[t], result[t])'
<1> PICK c, td, n, r : c = call[t] /\ td = todo[t] /\ n = count[t] /\ r = result[t]
  OBVIOUS
<1> DEFINE cid == c.cid
           left == Abs!EndpointsOf(cid.pod) \ {cid.endpoint}
<1>1. ThreadOK(c, "loop", td, n, r) /\ c.op = "purge" /\ cid \in CollectorID /\ MapOK
  BY Within DEF PurgePod, IInv
<1>2. EndpointPurged(c)
  BY <1>1 DEF ThreadOK
<1>3. /\ call'[t] = c /\ pc'[t] = "return" /\ todo'[t] = td /\ count'[t] = n /\ result'[t] = r
      /\ UNCHANGED committed
      /\ allMetrics' = IF EndpointsOf(cid.pod) # {} THEN allMetrics
                       ELSE [q \in DOMAIN allMetrics \ {cid.pod} |-> allMetrics[q]]
  BY DEF PurgePod, IInv, Functional
<1>4. EndpointsOf(cid.pod) = left
  <2>1. left \subseteq Endpoints /\ (cid.pod \notin DOMAIN committed => left = {})
    BY DEF Abs!EndpointsOf
  <2> HIDE DEF left
  <2> QED BY <1>2, <2>1 DEF EndpointPurged, EndpointsOf, left
<1>5. PodPurged(c)'
  <2>1. Abs!EndpointsOf(cid.pod)' = Abs!EndpointsOf(cid.pod)
    BY <1>3 DEF Abs!EndpointsOf
  <2>2. CASE left # {}
    BY <1>2, <1>3, <1>4, <2>1, <2>2 DEF EndpointPurged, PodPurged
  <2>3. CASE left = {}
    BY <1>2, <1>3, <1>4, <2>1, <2>3 DEF EndpointPurged, PodPurged
  <2> QED BY <2>2, <2>3
<1>6. MapOK'
  <2>1. CASE EndpointsOf(cid.pod) # {}
    BY <1>1, <1>3, <2>1 DEF MapOK, TrackerTypeOK, PodLimit, PodCount, PodMetrics, MetricsOf, EndpointsOf
  <2>2. CASE EndpointsOf(cid.pod) = {}
    BY <1>1, <1>3, <2>2, PodDeleted
  <2> QED BY <2>1, <2>2
<1>7. ThreadOK(c, "return", td, n, r)'
  BY <1>1, <1>5 DEF ThreadOK, NoCall
<1> QED BY <1>3, <1>6, <1>7

\* A purge of everything leaves the empty map.
LEMMA PurgesAll ==
    ASSUME IInv, NEW t \in Threads, PurgeAll(t)
    PROVE  MapOK' /\ ThreadOK(call[t], pc[t], todo[t], count[t], result[t])'
<1> PICK c, td, n, r : c = call[t] /\ td = todo[t] /\ n = count[t] /\ r = result[t]
  OBVIOUS
<1>1. ThreadOK(c, "begin", td, n, r) /\ c.op = "purgeAll" /\ MapOK
  BY Within DEF PurgeAll, IInv
<1>2. /\ call'[t] = c /\ pc'[t] = "return" /\ todo'[t] = td /\ count'[t] = n /\ result'[t] = r
      /\ PurgeAllMetrics
  BY DEF PurgeAll, IInv, Functional
<1>3. MapOK'
  <2>1. TrackerNext
    BY <1>2 DEF TrackerNext
  <2>2. \A p \in Pods : PodMetrics(p)' = {}
    BY <1>2 DEF PurgeAllMetrics, PodMetrics, MetricsOf, EndpointsOf
  <2> QED BY <1>1, <2>1, <2>2, TypeStep, ShrinkKeepsLimit, PodsStayFinite DEF MapOK
<1>4. ThreadOK(c, "return", td, n, r)'
  BY <1>1, <1>2 DEF ThreadOK, NoCall, PurgeAllMetrics
<1> QED BY <1>2, <1>3, <1>4

\* GetCounts begins with all pods to be visited.
LEMMA CountBegins ==
    ASSUME IInv, NEW t \in Threads, CountBegin(t)
    PROVE  ThreadOK(call[t], pc[t], todo[t], count[t], result[t])'
<1> PICK c, td, n, r : c = call[t] /\ td = todo[t] /\ n = count[t] /\ r = result[t]
  OBVIOUS
<1>1. ThreadOK(c, "begin", td, n, r) /\ c.op = "getCounts" /\ MapOK
  BY Within DEF CountBegin, IInv
<1>2. PICK order \in SetToSeqs(DOMAIN allMetrics) : todo' = [todo EXCEPT ![t] = order]
  BY DEF CountBegin
<1>3. /\ call'[t] = c /\ pc'[t] = "loop" /\ todo'[t] = order /\ count'[t] = n /\ result'[t] = r
      /\ UNCHANGED allMetrics
  BY <1>2 DEF CountBegin, IInv, Functional
<1>4. Counting(order, n)
  <2>1. order \in Seq(DOMAIN allMetrics) /\ IsInjective(order) /\ ToSet(order) = DOMAIN allMetrics
    BY <1>1, OrderOfSet DEF MapOK
  <2>2. n = CountsOf({})
    BY <1>1, NothingCounted DEF ThreadOK
  <2>3. n.metrics <= n.pods * MaxMetricsPerPod
    BY <1>1, TrackerConstants DEF ThreadOK, NoCounts
  <2> QED BY <2>1, <2>2, <2>3 DEF Counting
<1>5. Counting(order, n)'
  BY <1>3, <1>4 DEF Counting, CountsOf, Tracked, Monitored, MetricsOf, EndpointsOf
<1>6. ThreadOK(c, "loop", order, n, r)'
  BY <1>1, <1>5 DEF ThreadOK, NoCall
<1> QED BY <1>3, <1>6

\* One more pod is counted.
LEMMA CountGoesOn ==
    ASSUME IInv, NEW t \in Threads, CountPod(t)
    PROVE  ThreadOK(call[t], pc[t], todo[t], count[t], result[t])'
<1> PICK c, p, rest, k, r, n : /\ c = call[t] /\ p = Head(todo[t]) /\ rest = Tail(todo[t])
                               /\ k = count[t] /\ r = result[t] /\ n = count'[t]
  OBVIOUS
<1> DEFINE pods == DOMAIN allMetrics
           V == pods \ ToSet(todo[t])
<1>1. ThreadOK(c, "loop", todo[t], k, r) /\ c.op = "getCounts" /\ todo[t] # <<>> /\ MapOK
      /\ k \in [pods : Nat, endpoints : Nat, metrics : Nat]
  BY Within DEF CountPod, IInv, ThreadOK
<1>2. todo[t] \in Seq(pods) /\ IsInjective(todo[t]) /\ k = CountsOf(V)
      /\ k.metrics <= k.pods * MaxMetricsPerPod
  BY <1>1 DEF ThreadOK, Counting
<1>3. p \in pods /\ rest \in Seq(pods) /\ ToSet(todo[t]) = {p} \cup ToSet(rest)
      /\ p \notin ToSet(rest) /\ IsInjective(rest)
  BY <1>1, <1>2, HeadAndTail, HeadIsNew
<1>4. pods \ ToSet(rest) = V \cup {p} /\ p \notin V /\ p \in Pods
  BY <1>1, <1>3, MapOfFacts DEF MapOK, TrackerTypeOK
<1>5. IsFiniteSet(V)
  BY <1>1, FS_Subset DEF MapOK
<1>6. /\ call'[t] = c /\ pc'[t] = "loop" /\ todo'[t] = rest /\ result'[t] = r /\ UNCHANGED allMetrics
      /\ n = [pods |-> k.pods + 1,
              endpoints |-> k.endpoints + Cardinality(EndpointsOf(p)),
              metrics |-> k.metrics + PodCount(p)]
  BY DEF CountPod, IInv, Functional
<1>7. n = CountsOf(pods \ ToSet(rest))
  <2> HIDE DEF V
  <2>1. CountsOf(V \cup {p}) = n
    BY <1>1, <1>2, <1>4, <1>5, <1>6, CountOneMore DEF MapOK
  <2> QED BY <1>4, <2>1
<1>8. n \in [pods : Nat, endpoints : Nat, metrics : Nat]
  <2>1. Cardinality(EndpointsOf(p)) \in Nat /\ PodCount(p) \in Nat
    BY <1>1, FS_Subset, FS_CardinalityType, TrackerConstants, LookupFinite, PodMetricsFinite DEF EndpointsOf, MapOK
  <2> QED BY <1>1, <1>6, <2>1
<1>9. n.metrics <= n.pods * MaxMetricsPerPod
  <2>1. k.metrics + PodCount(p) <= (k.pods + 1) * MaxMetricsPerPod
    BY <1>1, <1>2, <1>4, CountWithinLimits DEF MapOK
  <2> QED BY <1>6, <2>1
<1>10. Counting(rest, n)
  BY <1>3, <1>7, <1>9 DEF Counting
<1>11. Counting(rest, n)'
  BY <1>6, <1>10 DEF Counting, CountsOf, Tracked, Monitored, MetricsOf, EndpointsOf
<1>12. ThreadOK(c, "loop", rest, n, r)'
  BY <1>1, <1>8, <1>11 DEF ThreadOK, NoCall
<1> QED BY <1>6, <1>12

\* A loop that has nothing left to do ends.
LEMMA LoopEnds ==
    ASSUME IInv, NEW t \in Threads, LoopEnd(t)
    PROVE  ThreadOK(call[t], pc[t], todo[t], count[t], result[t])'
<1> PICK c, td, n, r : c = call[t] /\ td = todo[t] /\ n = count[t] /\ r = result[t]
  OBVIOUS
<1>1. ThreadOK(c, "loop", td, n, r) /\ c.op \in {"add", "getCounts"} /\ td = <<>>
  BY Within DEF LoopEnd
<1>2. /\ call'[t] = c /\ pc'[t] = "return" /\ todo'[t] = td /\ count'[t] = n /\ result'[t] = r
      /\ UNCHANGED <<allMetrics, committed>>
  BY DEF LoopEnd, IInv, Functional
<1>3. ASSUME Adding(c, td, n, r) PROVE Adding(c, td, n, r)'
  BY <1>2, <1>3, SameMaps
<1>4. ASSUME Counting(td, n) PROVE Counting(td, n)'
  BY <1>2, <1>4, SameMaps
<1>5. ThreadOK(c, "return", td, n, r)'
  BY <1>1, <1>3, <1>4 DEF ThreadOK, NoCall
<1> QED BY <1>2, <1>5
-----------------------------------------------------------------------------
\* Unlocking: what the operation has done is a step of the atomic tracker.

\* The overflow returned is one that the atomic addition may return.
LEMMA AddIsAtomic ==
    ASSUME IInv, NEW t \in Threads, pc[t] = "return", call[t].op = "add", committed' = allMetrics
    PROVE  Abs!AddMetricsFromCollector(call[t].cid, ToSet(call[t].metrics), result[t])
           /\ result[t] \subseteq ToSet(call[t].metrics) /\ ToSet(call[t].metrics) \in FiniteSubsets(MetricIds)
<1> PICK c, k, r : c = call[t] /\ k = count[t] /\ r = result[t]
  OBVIOUS
<1> DEFINE cid == c.cid
<1> PICK old, found : old = Abs!MetricsOf(cid.pod, cid.endpoint) /\ found = Abs!PodCount(cid.pod)
  OBVIOUS
<1>1. todo[t] = <<>> /\ cid.pod \in Pods /\ Adding(c, <<>>, k, r) /\ MapOK
      /\ k \in [pods : Nat, endpoints : Nat, metrics : Nat]
  BY Within DEF ThreadOK, CollectorID, IInv
<1>2. PICK done \in FiniteSubsets(MetricIds) :
            /\ ToSet(c.metrics) = done \cup ToSet(<<>>)
            /\ r \subseteq done \ old
            /\ allMetrics = Abs!Track(cid, done \ r)
            /\ k.metrics = found + Cardinality((done \ r) \ old)
            /\ k.metrics = PodCount(cid.pod)
            /\ r # {} => k.metrics = MaxMetricsPerPod
  BY <1>1 DEF Adding
<1>3. ToSet(c.metrics) = done
  BY <1>2, EmptyToSet
<1>4. found \in Nat /\ MaxMetricsPerPod \in Nat /\ k.metrics <= MaxMetricsPerPod
  <2>1. found \in Nat
    BY <1>1, <1>2, FoundFinite DEF MapOK
  <2> QED BY <1>1, <1>2, <2>1, TrackerConstants DEF MapOK, PodLimit
<1> DEFINE new == done \ old
<1>5. Cardinality(new \ r) \in Nat /\ (done \ r) \ old = new \ r
  <2>1. IsFiniteSet(new \ r)
    BY FS_Subset DEF FiniteSubsets
  <2> QED BY <2>1, FS_CardinalityType
<1>6. Cardinality(new \ r) <= MaxMetricsPerPod - found
      /\ (r # {} => Cardinality(new \ r) = MaxMetricsPerPod - found)
  <2>1. k.metrics = found + Cardinality(new \ r)
    BY <1>2, <1>5
  <2> HIDE DEF new
  <2> QED BY <1>2, <1>4, <1>5, <2>1
<1>7. r \in Abs!Overflows(cid, done)
  <2>1. Abs!Room(cid) = MaxMetricsPerPod - found
    BY DEF Abs!Room
  <2>2. r \in SUBSET new
    BY <1>2
  <2>3. CASE r = {}
    <3>1. Abs!Cardinality(new) <= Abs!Room(cid)
      BY <1>6, <2>1, <2>3, SameCardinality
    <3> QED BY <2>2, <2>3, <3>1 DEF Abs!Overflows
  <2>4. CASE r # {}
    <3>1. Abs!Cardinality(new \ r) = Abs!Room(cid)
      BY <1>6, <2>1, <2>4, SameCardinality
    <3> QED BY <2>2, <2>4, <3>1 DEF Abs!Overflows
  <2> QED BY <2>3, <2>4
<1> QED BY <1>2, <1>3, <1>7 DEF Abs!AddMetricsFromCollector

\* An unlock is a step of the atomic tracker or, of a reader, none.
LEMMA ReturnIsAtomic ==
    ASSUME IInv, NEW t \in Threads, Return(t)
    PROVE  [Abs!TrackerNext]_committed
<1> DEFINE c == call[t]
<1>1. ThreadOK(c, "return", todo[t], count[t], result[t])
  BY Within DEF Return
<1>2. c.op \in {"add", "purge", "purgeAll", "getCounts"}
  BY <1>1 DEF ThreadOK, Calls, NoCall
<1>3. CASE c.op = "add"
  <2>1. c.cid \in Abs!CollectorID
    BY <1>3, Within DEF CollectorID, Abs!CollectorID
  <2>2. committed' = allMetrics /\ pc[t] = "return"
    BY <1>3 DEF Return, Writes
  <2>3. Abs!AddMetricsFromCollector(c.cid, ToSet(c.metrics), result[t])
        /\ result[t] \in SUBSET ToSet(c.metrics) /\ ToSet(c.metrics) \in Abs!FiniteSubsets(MetricIds)
    BY <1>3, <2>2, AddIsAtomic, SameFinite
  <2> QED BY <2>1, <2>3 DEF Abs!TrackerNext
<1>4. CASE c.op = "purge"
  <2>1. c.cid \in Abs!CollectorID
    BY <1>4, Within DEF CollectorID, Abs!CollectorID
  <2>2. PodPurged(c) /\ committed' = allMetrics
    BY <1>1, <1>4 DEF ThreadOK, Return, Writes
  <2>3. Abs!PurgeMetricsForCollectorEndpoint(c.cid)
    BY <2>2 DEF PodPurged, Abs!PurgeMetricsForCollectorEndpoint
  <2> QED BY <2>1, <2>3 DEF Abs!TrackerNext
<1>5. CASE c.op = "purgeAll"
  <2>1. Abs!PurgeAllMetrics
    BY <1>1, <1>5 DEF ThreadOK, Return, Writes, Abs!PurgeAllMetrics
  <2> QED BY <2>1 DEF Abs!TrackerNext
<1>6. CASE c.op = "getCounts"
  BY <1>6 DEF Return, Writes
<1> QED BY <1>2, <1>3, <1>4, <1>5, <1>6
-----------------------------------------------------------------------------
\* No step breaks the invariant.

\* A thread is not disturbed by a step of another: what concerns it changes
\* only by a writer, and then it is outside its operation.
LEMMA OthersKeep ==
    ASSUME IInv, NEW t \in Threads, NEW u \in Threads \ {t},
           call'[u] = call[u], pc'[u] = pc[u], todo'[u] = todo[u], count'[u] = count[u],
           result'[u] = result[u], UNCHANGED <<allMetrics, committed>> \/ t \in writer
    PROVE  ThreadOK(call[u], pc[u], todo[u], count[u], result[u])'
<1> PICK c, at, td, n, r : c = call[u] /\ at = pc[u] /\ td = todo[u] /\ n = count[u] /\ r = result[u]
  OBVIOUS
<1>1. ThreadOK(c, at, td, n, r)
  BY DEF IInv, Threading
<1>2. CASE UNCHANGED <<allMetrics, committed>>
  <2>1. /\ Adding(c, td, n, r) => Adding(c, td, n, r)'
        /\ Counting(td, n) => Counting(td, n)'
        /\ EndpointPurged(c) => EndpointPurged(c)'
        /\ PodPurged(c) => PodPurged(c)'
    BY <1>2, SameMaps
  <2>2. ThreadOK(c, at, td, n, r)'
    BY <1>1, <1>2, <2>1 DEF ThreadOK
  <2> QED BY <2>2
<1>3. CASE t \in writer
  <2>1. at \in {"idle", "lock"}
    BY <1>1, <1>3 DEF IInv, LockOK, Inside, ThreadOK
  <2>2. ThreadOK(c, at, td, n, r)'
    BY <1>1, <2>1 DEF ThreadOK
  <2> QED BY <2>2
<1> QED BY <1>2, <1>3

\* The lock stays with those that took it until they return.
LEMMA LockStep ==
    ASSUME IInv, [Next]_vars
    PROVE  LockOK' /\ Clean'
<1> USE DEF IInv, Functional
<1>1. ASSUME NEW t \in Threads, Invoke(t)
      PROVE  LockOK' /\ Clean'
  BY <1>1 DEF Invoke, LockOK, Clean, Inside
<1>2. ASSUME NEW t \in Threads, Lock(t)
      PROVE  LockOK' /\ Clean'
  BY <1>2 DEF Lock, LockOK, Clean, Inside
<1>3. ASSUME NEW t \in Threads, RLock(t)
      PROVE  LockOK' /\ Clean'
  BY <1>3 DEF RLock, LockOK, Clean, Inside
<1>4. ASSUME NEW t \in Threads, Return(t)
      PROVE  LockOK' /\ Clean'
  <2>1. LockOK'
    BY <1>4 DEF Return, Reset, LockOK, Inside, NoCall, Writes
  <2>2. Clean'
    BY <1>4 DEF Return, Reset, LockOK, Inside, Clean, Writes
  <2> QED BY <2>1, <2>2
<1>5. ASSUME NEW t \in Threads, Step(t), ~Return(t)
      PROVE  LockOK' /\ Clean'
  <2>1. /\ UNCHANGED <<writer, readers, call, committed>>
        /\ Inside(t) /\ \A u \in Threads : Inside(u)' = Inside(u)
        /\ pc'[t] # "begin" /\ \A u \in Threads \ {t} : pc'[u] = pc[u]
        /\ UNCHANGED allMetrics \/ Writes(call[t])
    BY <1>5 DEF Step, AddBegin, AddMetric, PurgeEndpoint, PurgePod, PurgeAll, CountBegin, CountPod, LoopEnd,
       Inside, Writes
  <2>2. LockOK'
    BY <2>1 DEF LockOK
  <2>3. Clean'
    BY <2>1 DEF LockOK, Clean
  <2> QED BY <2>2, <2>3
<1>6. CASE UNCHANGED vars
  BY <1>6 DEF vars, LockOK, Clean, Inside
<1> QED BY <1>1, <1>2, <1>3, <1>4, <1>5, <1>6 DEF Next

\* The invariant holds of a tracker that nobody has called.
LEMMA InitHolds == Init => IInv
<1> SUFFICES ASSUME Init PROVE IInv
  OBVIOUS
<1> USE DEF Init
<1>1. Functional
  BY DEF Functional
<1>2. MapOK
  <2>1. ASSUME NEW p \in Pods
        PROVE  PodCount(p) <= MaxMetricsPerPod
    <3>1. PodMetrics(p) = {}
      BY DEF TrackerInit, PodMetrics, MetricsOf, EndpointsOf
    <3>2. PodCount(p) = 0
      BY <3>1, FS_EmptySet DEF PodCount
    <3> QED BY <3>2, TrackerConstants
  <2>2. PodLimit
    BY <2>1 DEF PodLimit
  <2>3. DOMAIN allMetrics = {}
    BY DEF TrackerInit
  <2> QED BY <2>2, <2>3, TypeInit, FS_EmptySet DEF MapOK
<1>3. LockOK /\ Clean
  BY DEF LockOK, Clean, Inside
<1>4. Threading
  BY DEF Threading, ThreadOK, NoCall, NoCounts
<1> QED BY <1>1, <1>2, <1>3, <1>4 DEF IInv

\* Every step keeps it.
LEMMA StepHolds == IInv /\ [Next]_vars => IInv'
<1> SUFFICES ASSUME IInv, [Next]_vars PROVE IInv'
  OBVIOUS
<1>1. LockOK' /\ Clean'
  BY LockStep
<1>2. CASE UNCHANGED vars
  <2>1. Functional' /\ MapOK'
    BY <1>2 DEF vars, IInv, Functional, MapOK, TrackerTypeOK, PodLimit, PodCount, PodMetrics, MetricsOf,
       EndpointsOf
  <2>2. ASSUME NEW t \in Threads
        PROVE  ThreadOK(call[t], pc[t], todo[t], count[t], result[t])'
    <3> PICK c, at, td, n, r : c = call[t] /\ at = pc[t] /\ td = todo[t] /\ n = count[t] /\ r = result[t]
      OBVIOUS
    <3>1. ThreadOK(c, at, td, n, r)
      BY DEF IInv, Threading
    <3>2. /\ Adding(c, td, n, r) => Adding(c, td, n, r)'
          /\ Counting(td, n) => Counting(td, n)'
          /\ EndpointPurged(c) => EndpointPurged(c)'
          /\ PodPurged(c) => PodPurged(c)'
      BY <1>2, SameMaps DEF vars
    <3>3. ThreadOK(c, at, td, n, r)'
      BY <1>2, <3>1, <3>2 DEF ThreadOK, vars
    <3> QED BY <1>2, <3>3 DEF vars
  <2> QED BY <1>1, <2>1, <2>2 DEF IInv, Threading
<1>3. ASSUME NEW t \in Threads, Invoke(t) \/ Lock(t) \/ RLock(t) \/ Step(t)
      PROVE  IInv'
  <2>1. Functional'
    BY <1>3 DEF IInv, Functional, Invoke, Lock, RLock, Step, AddBegin, AddMetric, PurgeEndpoint, PurgePod,
       PurgeAll, CountBegin, CountPod, LoopEnd, Return, Reset
  <2>2. ASSUME NEW u \in Threads \ {t}
        PROVE  ThreadOK(call[u], pc[u], todo[u], count[u], result[u])'
    <3>1. /\ call'[u] = call[u] /\ pc'[u] = pc[u] /\ todo'[u] = todo[u] /\ count'[u] = count[u]
          /\ result'[u] = result[u]
      BY <1>3 DEF IInv, Functional, Invoke, Lock, RLock, Step, AddBegin, AddMetric, PurgeEndpoint, PurgePod,
         PurgeAll, CountBegin, CountPod, LoopEnd, Return, Reset
    <3>2. UNCHANGED <<allMetrics, committed>> \/ (Inside(t) /\ Writes(call[t]))
      <4>1. CASE AddBegin(t) \/ AddMetric(t) \/ PurgeEndpoint(t) \/ PurgePod(t) \/ PurgeAll(t)
        BY <4>1 DEF AddBegin, AddMetric, PurgeEndpoint, PurgePod, PurgeAll, Inside, Writes
      <4>2. CASE Return(t)
        BY <4>2 DEF Return, Reset, Inside
      <4> QED BY <1>3, <4>1, <4>2 DEF Invoke, Lock, RLock, Step, CountBegin, CountPod, LoopEnd
    <3>3. UNCHANGED <<allMetrics, committed>> \/ t \in writer
      BY <3>2 DEF IInv, LockOK
    <3> QED BY <3>1, <3>3, OthersKeep
  <2>3. MapOK' /\ ThreadOK(call[t], pc[t], todo[t], count[t], result[t])'
    <3>0. UNCHANGED allMetrics => MapOK'
      BY DEF IInv, MapOK, TrackerTypeOK, PodLimit, PodCount, PodMetrics, MetricsOf, EndpointsOf
    <3> PICK c, at, td, n, r : c = call[t] /\ at = pc[t] /\ td = todo[t] /\ n = count[t] /\ r = result[t]
      OBVIOUS
    <3>1. ThreadOK(c, at, td, n, r)
      BY Within
    <3>2. CASE Invoke(t)
      <4>1. PICK d \in Calls : call'[t] = d
        BY <3>2 DEF Invoke, IInv, Functional
      <4>2. /\ pc'[t] = "lock" /\ todo'[t] = td /\ count'[t] = n /\ result'[t] = r /\ at = "idle"
            /\ UNCHANGED allMetrics
        BY <3>2 DEF Invoke, IInv, Functional
      <4>3. ThreadOK(d, "lock", td, n, r)'
        BY <3>1, <4>2 DEF ThreadOK, NoCall, Calls
      <4> QED BY <3>0, <4>1, <4>2, <4>3
    <3>3. CASE Lock(t) \/ RLock(t)
      <4>1. /\ call'[t] = c /\ pc'[t] = "begin" /\ todo'[t] = td /\ count'[t] = n /\ result'[t] = r
            /\ at = "lock" /\ UNCHANGED allMetrics
        BY <3>3 DEF Lock, RLock, IInv, Functional
      <4>2. ThreadOK(c, "begin", td, n, r)'
        BY <3>1, <4>1 DEF ThreadOK, NoCall
      <4> QED BY <3>0, <4>1, <4>2
    <3>4. CASE Return(t)
      <4>1. /\ call'[t] = NoCall /\ pc'[t] = "idle" /\ todo'[t] = td /\ count'[t] = NoCounts
            /\ result'[t] = {} /\ UNCHANGED allMetrics
        BY <3>4 DEF Return, Reset, IInv, Functional
      <4>2. ThreadOK(NoCall, "idle", td, NoCounts, {})'
        BY DEF ThreadOK, NoCall, NoCounts
      <4> QED BY <3>0, <4>1, <4>2
    <3>5. CASE CountBegin(t) \/ CountPod(t) \/ LoopEnd(t)
      <4>1. UNCHANGED allMetrics
        BY <3>5 DEF CountBegin, CountPod, LoopEnd
      <4> QED BY <3>0, <3>5, <4>1, CountBegins, CountGoesOn, LoopEnds
    <3> QED BY <1>3, <3>2, <3>3, <3>4, <3>5, AddBegins, AddGoesOn, PurgeBegins, PurgeGoesOn, PurgesAll DEF Step
  <2> QED BY <1>1, <2>1, <2>2, <2>3 DEF IInv, Threading
<1> QED BY <1>2, <1>3 DEF Next

\* The tracker is never outside the inductive invariant.
LEMMA Invariant == Spec => []IInv
BY InitHolds, StepHolds, PTL DEF Spec

\* The tracker's variables keep their types; a writer is alone in the lock; and
\* nobody counts more metrics than the limits of the pods allow.
THEOREM LockingTypeCorrect == Spec => []TypeOK
<1>1. IInv => TypeOK
  <2> SUFFICES ASSUME IInv PROVE TypeOK
    OBVIOUS
  <2>1. Cardinality(writer) <= 1
    <3>1. CASE writer = {}
      BY <3>1, FS_EmptySet
    <3>2. ASSUME NEW t \in writer
          PROVE  Cardinality(writer) <= 1
      <4>1. writer = {t}
        BY <3>2 DEF IInv, LockOK
      <4>2. Cardinality({t}) = 1
        BY FS_Singleton
      <4> QED BY <4>1, <4>2
    <3> QED BY <3>1, <3>2
  <2>2. call \in [Threads -> Calls \cup {NoCall}]
        /\ pc \in [Threads -> {"idle", "lock", "begin", "loop", "return"}]
    <3>1. \A t \in Threads : call[t] \in Calls \cup {NoCall}
                            /\ pc[t] \in {"idle", "lock", "begin", "loop", "return"}
      BY DEF IInv, Threading, ThreadOK
    <3> QED BY <3>1 DEF IInv, Functional
  <2> DEFINE pods == DOMAIN allMetrics
  <2>3. Cardinality(pods) \in Nat /\ MaxMetricsPerPod \in Nat /\ Cardinality(pods) * MaxMetricsPerPod \in Nat
    BY FS_CardinalityType, TrackerConstants DEF IInv, MapOK
  <2>4. ASSUME NEW t \in Threads
        PROVE  /\ result[t] \subseteq MetricIds
               /\ count[t].metrics \in 0..(Cardinality(pods) * MaxMetricsPerPod)
    <3> PICK c, at, td, n, r : c = call[t] /\ at = pc[t] /\ td = todo[t] /\ n = count[t] /\ r = result[t]
      OBVIOUS
    <3>1. ThreadOK(c, at, td, n, r) /\ n.metrics \in Nat /\ r \subseteq MetricIds
      BY Within DEF ThreadOK
    <3>2. CASE n = NoCounts
      BY <2>3, <3>1, <3>2 DEF NoCounts
    <3>3. CASE at \in {"loop", "return"} /\ c.op = "add"
      <4>1. c.cid.pod \in pods /\ n.metrics = PodCount(c.cid.pod)
        BY <3>1, <3>3 DEF ThreadOK, Adding, Abs!Track
      <4>2. n.metrics <= MaxMetricsPerPod
        BY <3>3, <4>1, Within DEF CollectorID, IInv, MapOK, PodLimit
      <4>3. Cardinality(pods) # 0
        BY <4>1, FS_EmptySet DEF IInv, MapOK
      <4>4. \A k \in Nat, max \in Nat : k # 0 => max <= k * max
        <5>1. \A k \in Nat, max \in Nat : k # 0 => k * max = max + (k - 1) * max /\ (k - 1) * max >= 0
          OBVIOUS
        <5> QED BY <5>1
      <4>5. MaxMetricsPerPod <= Cardinality(pods) * MaxMetricsPerPod
        BY <2>3, <4>3, <4>4
      <4> HIDE DEF pods
      <4> QED BY <2>3, <3>1, <4>2, <4>5
    <3>4. CASE at \in {"loop", "return"} /\ c.op = "getCounts"
      <4> DEFINE V == pods \ ToSet(td)
      <4>1. Counting(td, n)
        BY <3>1, <3>4 DEF ThreadOK
      <4>2. n.metrics <= Cardinality(V) * MaxMetricsPerPod
        BY <4>1 DEF Counting, CountsOf
      <4>3. IsFiniteSet(V) /\ Cardinality(V) \in Nat /\ Cardinality(V) <= Cardinality(pods)
        BY FS_Subset, FS_CardinalityType DEF IInv, MapOK
      <4>4. \A j, k, max \in Nat : j <= k => j * max <= k * max
        <5>1. \A j, d, max \in Nat : (j + d) * max = j * max + d * max /\ d * max >= 0 /\ j * max \in Nat
          OBVIOUS
        <5>2. \A j, k \in Nat : j <= k => k - j \in Nat /\ j + (k - j) = k
          OBVIOUS
        <5> QED BY <5>1, <5>2
      <4> HIDE DEF V, pods
      <4>5. Cardinality(V) * MaxMetricsPerPod <= Cardinality(pods) * MaxMetricsPerPod
        BY <2>3, <4>3, <4>4
      <4>6. Cardinality(V) * MaxMetricsPerPod \in Nat
        BY <2>3, <4>3
      <4> QED BY <2>3, <3>1, <4>2, <4>5, <4>6
    <3>5. \/ n = NoCounts
          \/ at \in {"loop", "return"} /\ c.op = "add"
          \/ at \in {"loop", "return"} /\ c.op = "getCounts"
      BY <3>1 DEF ThreadOK, Calls, NoCall
    <3> QED BY <3>1, <3>2, <3>3, <3>4, <3>5
  <2> QED BY <2>1, <2>2, <2>4 DEF TypeOK, IInv, MapOK, LockOK
<1> QED BY <1>1, Invariant, PTL

\* Whatever the goroutines do at the same time, seen through its lock the
\* tracker makes the steps of the atomic one and no other.
THEOREM LockingImplementsTracker == Spec => ImplementsTracker
<1>1. Init => Abs!TrackerInit
  BY DEF Init, TrackerInit, Abs!TrackerInit
<1>2. IInv /\ [Next]_vars => [Abs!TrackerNext]_committed
  <2> SUFFICES ASSUME IInv, [Next]_vars PROVE [Abs!TrackerNext]_committed
    OBVIOUS
  <2>1. ASSUME NEW t \in Threads, Return(t)
        PROVE  [Abs!TrackerNext]_committed
    BY <2>1, ReturnIsAtomic
  <2>2. UNCHANGED committed \/ \E t \in Threads : Return(t)
    BY DEF Next, vars, Invoke, Lock, RLock, Step, AddBegin, AddMetric, PurgeEndpoint, PurgePod, PurgeAll,
       CountBegin, CountPod, LoopEnd
  <2> QED BY <2>1, <2>2
<1> QED BY <1>1, <1>2, Invariant, PTL DEF Spec, ImplementsTracker, Abs!TrackerSpec

\* What AddMetricsFromCollector returns is the overflow of the list it was given
\* on the map it found, also with repeated or tracked IDs in the list.
THEOREM OverflowIsExactHolds == Spec => OverflowIsExact
<1> DEFINE Exact == \A t \in Threads :
               pc[t] = "return" /\ pc'[t] = "idle" /\ call[t].op = "add"
                  => Abs!AddMetricsFromCollector(call[t].cid, ToSet(call[t].metrics), result[t])
<1>1. IInv /\ [Next]_vars => [Exact]_vars
  <2> SUFFICES ASSUME IInv, Next, NEW t \in Threads,
                      pc[t] = "return", pc'[t] = "idle", call[t].op = "add"
               PROVE  Abs!AddMetricsFromCollector(call[t].cid, ToSet(call[t].metrics), result[t])
    OBVIOUS
  <2>1. Return(t)
    BY DEF IInv, Functional, Next, Invoke, Lock, RLock, Step, AddBegin, AddMetric, PurgeEndpoint, PurgePod,
       PurgeAll, CountBegin, CountPod, LoopEnd, Return, Reset
  <2>2. committed' = allMetrics
    BY <2>1 DEF Return, Writes
  <2> QED BY <2>2, AddIsAtomic
<1> QED BY <1>1, Invariant, PTL DEF Spec, OverflowIsExact

\* GetCounts returns the counts of one map, though it goes through the pods one
\* at a time while others wait to change them.
THEOREM CountsAreSnapshotHolds == Spec => []CountsAreSnapshot
<1>1. IInv => CountsAreSnapshot
  <2> SUFFICES ASSUME IInv, NEW t \in Threads, pc[t] = "return", call[t].op = "getCounts"
               PROVE  count[t] = Abs!Counts
    BY DEF CountsAreSnapshot
  <2>1. todo[t] = <<>> /\ Counting(<<>>, count[t])
    BY Within DEF ThreadOK
  <2>2. count[t] = CountsOf(DOMAIN allMetrics)
    BY <2>1, EmptyToSet DEF Counting
  <2>3. t \in readers /\ writer = {}
    BY DEF IInv, LockOK, Inside, Writes
  <2>4. allMetrics = committed
    BY <2>3 DEF IInv, Clean
  <2> QED BY <2>2, <2>4, AllCounted, CleanLookups DEF IInv, MapOK
<1> QED BY <1>1, Invariant, PTL

\* The limit holds at every moment, inside the operations as well: a loop of
\* AddMetricsFromCollector never has a pod over it for a while.
THEOREM LimitHoldsInside == Spec => []PodLimit
<1>1. IInv => PodLimit
  BY DEF IInv, MapOK
<1> QED BY <1>1, Invariant, PTL
=============================================================================
