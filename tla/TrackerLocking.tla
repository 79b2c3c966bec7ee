-------------------------- MODULE TrackerLocking --------------------------
(***************************************************************************)
(* The metrics tracker as the code runs it: goroutines call it at the same *)
(* time, each operation takes the tracker's RWMutex, and the loops inside  *)
(* go one metric or one pod at a time.  It implements MetricsTracker, whose*)
(* operations are atomic: allMetrics is the shared map here, and committed *)
(* the map as of the last unlock.                                          *)
(***************************************************************************)
EXTENDS MetricsTracker, SequencesExt

CONSTANTS Threads,        \* goroutines that call the tracker
          Collectors,     \* the collectors there are: pod and endpoint of each
          MetricSeqs      \* the lists of metrics a collection can report

ASSUME LockingConstants ==
    /\ MetricSeqs \subseteq Seq(MetricIds)
    /\ Collectors \subseteq CollectorID

VARIABLES
    writer,      \* the goroutine that holds the write lock, in a set
    readers,     \* the goroutines that hold the read lock
    call,        \* call[t]: the operation t is in, with its arguments
    pc,          \* pc[t]: how far t is in it
    todo,        \* todo[t]: what the loop of t has yet to look at
    count,       \* count[t]: what t has counted so far
    result,      \* result[t]: the overflow, as far as t has collected it
    committed    \* history: the map when the write lock was last released

vars == <<allMetrics, writer, readers, call, pc, todo, count, result, committed>>

Abs == INSTANCE MetricsTracker WITH allMetrics <- committed

NoCall == [op |-> "none"]

\* The operations that change the map take the write lock.
Calls == [op : {"add"}, cid : Collectors, metrics : MetricSeqs]
            \cup [op : {"purge"}, cid : Collectors]
            \cup [op : {"purgeAll", "getCounts"}]
Writes(c) == c.op # "getCounts"

NoCounts == [pods |-> 0, endpoints |-> 0, metrics |-> 0]

Init ==
    /\ TrackerInit
    /\ committed = allMetrics
    /\ writer = {} /\ readers = {}
    /\ call = [t \in Threads |-> NoCall]
    /\ pc = [t \in Threads |-> "idle"]
    /\ todo = [t \in Threads |-> <<>>]
    /\ count = [t \in Threads |-> NoCounts]
    /\ result = [t \in Threads |-> {}]
-----------------------------------------------------------------------------
Invoke(t) ==
    /\ pc[t] = "idle"
    /\ \E c \in Calls : call' = [call EXCEPT ![t] = c]
    /\ pc' = [pc EXCEPT ![t] = "lock"]
    /\ UNCHANGED <<allMetrics, writer, readers, todo, count, result, committed>>

\* Faulty: writers only keep out writers.
LockIgnoringReaders(t) ==
    /\ pc[t] = "lock" /\ Writes(call[t])
    /\ writer = {}
    /\ writer' = {t}
    /\ pc' = [pc EXCEPT ![t] = "begin"]
    /\ UNCHANGED <<allMetrics, readers, call, todo, count, result, committed>>

\* Faulty: the lock is not exclusive.
LockShared(t) ==
    /\ pc[t] = "lock" /\ Writes(call[t])
    /\ writer' = writer \cup {t}
    /\ pc' = [pc EXCEPT ![t] = "begin"]
    /\ UNCHANGED <<allMetrics, readers, call, todo, count, result, committed>>

Lock(t) ==
    /\ pc[t] = "lock" /\ Writes(call[t])
    /\ writer = {} /\ readers = {}
    /\ writer' = {t}
    /\ pc' = [pc EXCEPT ![t] = "begin"]
    /\ UNCHANGED <<allMetrics, readers, call, todo, count, result, committed>>

RLock(t) ==
    /\ pc[t] = "lock" /\ ~Writes(call[t])
    /\ writer = {}
    /\ readers' = readers \cup {t}
    /\ pc' = [pc EXCEPT ![t] = "begin"]
    /\ UNCHANGED <<allMetrics, writer, call, todo, count, result, committed>>

\* Faulty: only the endpoint's own metrics count against the limit.
AddBeginOwnCount(t) ==
    /\ pc[t] = "begin" /\ call[t].op = "add"
    /\ count' = [count EXCEPT ![t].metrics =
            Cardinality(MetricsOf(call[t].cid.pod, call[t].cid.endpoint))]
    /\ allMetrics' = Track(call[t].cid, {})
    /\ todo' = [todo EXCEPT ![t] = call[t].metrics]
    /\ pc' = [pc EXCEPT ![t] = "loop"]
    /\ UNCHANGED <<writer, readers, call, result, committed>>

\* AddMetricsFromCollector up to its loop: count what the pod has, create the
\* entries of the pod and the endpoint if there are none.
AddBegin(t) ==
    /\ pc[t] = "begin" /\ call[t].op = "add"
    /\ count' = [count EXCEPT ![t].metrics = PodCount(call[t].cid.pod)]
    /\ allMetrics' = Track(call[t].cid, {})
    /\ todo' = [todo EXCEPT ![t] = call[t].metrics]
    /\ pc' = [pc EXCEPT ![t] = "loop"]
    /\ UNCHANGED <<writer, readers, call, result, committed>>

\* One round of the loop of AddMetricsFromCollector.
AddMetric(t) ==
    /\ pc[t] = "loop" /\ call[t].op = "add" /\ todo[t] # <<>>
    /\ todo' = [todo EXCEPT ![t] = Tail(@)]
    /\ LET m   == Head(todo[t])
           cid == call[t].cid
       IN  \/ /\ m \in MetricsOf(cid.pod, cid.endpoint)
              /\ UNCHANGED <<allMetrics, count, result>>
           \/ /\ m \notin MetricsOf(cid.pod, cid.endpoint)
              /\ count[t].metrics < MaxMetricsPerPod
              /\ allMetrics' = Track(cid, {m})
              /\ count' = [count EXCEPT ![t].metrics = @ + 1]
              /\ UNCHANGED result
           \/ /\ m \notin MetricsOf(cid.pod, cid.endpoint)
              /\ count[t].metrics >= MaxMetricsPerPod
              /\ result' = [result EXCEPT ![t] = @ \cup {m}]
              /\ UNCHANGED <<allMetrics, count>>
    /\ UNCHANGED <<writer, readers, call, pc, committed>>

\* Purging deletes the endpoint, then the pod if it has no endpoint left.
PurgeEndpoint(t) ==
    LET cid == call[t].cid
        left == EndpointsOf(cid.pod) \ {cid.endpoint}
    IN  /\ pc[t] = "begin" /\ call[t].op = "purge"
        /\ allMetrics' = [p \in DOMAIN allMetrics |->
                IF p = cid.pod THEN [e \in left |-> allMetrics[p][e]] ELSE allMetrics[p]]
        /\ pc' = [pc EXCEPT ![t] = "loop"]
        /\ UNCHANGED <<writer, readers, call, todo, count, result, committed>>

PurgePod(t) ==
    LET p == call[t].cid.pod
    IN  /\ pc[t] = "loop" /\ call[t].op = "purge"
        /\ allMetrics' = IF EndpointsOf(p) # {} THEN allMetrics
                         ELSE [q \in DOMAIN allMetrics \ {p} |-> allMetrics[q]]
        /\ pc' = [pc EXCEPT ![t] = "return"]
        /\ UNCHANGED <<writer, readers, call, todo, count, result, committed>>

PurgeAll(t) ==
    /\ pc[t] = "begin" /\ call[t].op = "purgeAll"
    /\ PurgeAllMetrics
    /\ pc' = [pc EXCEPT ![t] = "return"]
    /\ UNCHANGED <<writer, readers, call, todo, count, result, committed>>

\* GetCounts ranges over the pods, in any order.
CountBegin(t) ==
    /\ pc[t] = "begin" /\ call[t].op = "getCounts"
    /\ \E order \in SetToSeqs(DOMAIN allMetrics) : todo' = [todo EXCEPT ![t] = order]
    /\ pc' = [pc EXCEPT ![t] = "loop"]
    /\ UNCHANGED <<allMetrics, writer, readers, call, count, result, committed>>

CountPod(t) ==
    LET p == Head(todo[t])
    IN  /\ pc[t] = "loop" /\ call[t].op = "getCounts" /\ todo[t] # <<>>
        /\ count' = [count EXCEPT ![t] =
                [pods      |-> @.pods + 1,
                 endpoints |-> @.endpoints + Cardinality(EndpointsOf(p)),
                 metrics   |-> @.metrics + PodCount(p)]]
        /\ todo' = [todo EXCEPT ![t] = Tail(@)]
        /\ UNCHANGED <<allMetrics, writer, readers, call, pc, result, committed>>

LoopEnd(t) ==
    /\ pc[t] = "loop" /\ call[t].op \in {"add", "getCounts"} /\ todo[t] = <<>>
    /\ pc' = [pc EXCEPT ![t] = "return"]
    /\ UNCHANGED <<allMetrics, writer, readers, call, todo, count, result, committed>>

Reset(t) ==
    /\ pc' = [pc EXCEPT ![t] = "idle"]
    /\ call' = [call EXCEPT ![t] = NoCall]
    /\ count' = [count EXCEPT ![t] = NoCounts]
    /\ result' = [result EXCEPT ![t] = {}]
    /\ UNCHANGED <<allMetrics, todo>>

\* Faulty: a read lock is never released.
ReturnLocked(t) ==
    /\ pc[t] = "return"
    /\ Reset(t)
    /\ writer' = writer \ {t}
    /\ UNCHANGED readers
    /\ committed' = IF Writes(call[t]) THEN allMetrics ELSE committed

\* The deferred unlock, and the return to the caller.
Return(t) ==
    /\ pc[t] = "return"
    /\ Reset(t)
    /\ writer' = writer \ {t}
    /\ readers' = readers \ {t}
    /\ committed' = IF Writes(call[t]) THEN allMetrics ELSE committed

Step(t) ==
    \/ AddBegin(t) \/ AddMetric(t)
    \/ PurgeEndpoint(t) \/ PurgePod(t) \/ PurgeAll(t)
    \/ CountBegin(t) \/ CountPod(t)
    \/ LoopEnd(t) \/ Return(t)

Next == \E t \in Threads : Invoke(t) \/ Lock(t) \/ RLock(t) \/ Step(t)

\* A goroutine inside an operation runs on.  The lock is granted to a waiter
\* in the end: sync.RWMutex keeps readers from starving a waiting writer.
Fairness == \A t \in Threads : WF_vars(Step(t)) /\ SF_vars(Lock(t)) /\ SF_vars(RLock(t))

Spec == Init /\ [][Next]_vars /\ Fairness
-----------------------------------------------------------------------------
\* The types, and the mutual exclusion of the lock.
TypeOK ==
    /\ TrackerTypeOK
    /\ writer \subseteq Threads /\ readers \subseteq Threads
    /\ Cardinality(writer) <= 1 /\ (writer # {} => readers = {})
    /\ call \in [Threads -> Calls \cup {NoCall}]
    /\ pc \in [Threads -> {"idle", "lock", "begin", "loop", "return"}]
    /\ \A t \in Threads : /\ result[t] \subseteq MetricIds
                          /\ count[t].metrics \in 0..(Cardinality(DOMAIN allMetrics) * MaxMetricsPerPod)

\* Seen from outside the lock, the tracker only makes the steps of
\* MetricsTracker: no interleaving of additions, purges and counts is visible.
ImplementsTracker == Abs!TrackerSpec

\* AddMetricsFromCollector returns as overflow exactly what the abstract
\* operation may return at the moment it releases the lock, given the map it
\* found when it took it: an ID in the list twice, and an ID tracked before,
\* are never both kept and returned.
OverflowIsExact ==
    [][\A t \in Threads :
          pc[t] = "return" /\ pc'[t] = "idle" /\ call[t].op = "add"
             => Abs!AddMetricsFromCollector(call[t].cid, ToSet(call[t].metrics), result[t])]_vars

\* GetCounts returns numbers that belong together: those of the map at the time
\* it returns, not a mixture of the map before and after another operation.
CountsAreSnapshot ==
    \A t \in Threads :
        pc[t] = "return" /\ call[t].op = "getCounts" => count[t] = Abs!Counts

\* Every call returns: no operation keeps the lock.
CallsReturn == \A t \in Threads : pc[t] = "lock" ~> pc[t] = "idle"
=============================================================================
