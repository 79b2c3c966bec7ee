---------------------------- MODULE AgentGauges ----------------------------
(***************************************************************************)
(* The gauges of the agent's own metrics endpoint                          *)
(* (emitter/metrics/metrics_emitter.go): how many pods, endpoints and      *)
(* metrics are monitored.  The collector manager sets them from the counts *)
(* of the metrics tracker at the end of StopCollecting, under TickersLock, *)
(* and at the end of each successful collection, under no lock.  Between   *)
(* the counting and the setting of the last gauge others may do the same.  *)
(*                                                                         *)
(* The callers of the manager take turns here, one worker stands for all   *)
(* the goroutines that have collected from its endpoint.                   *)
(***************************************************************************)
EXTENDS MetricsTracker

CONSTANT Collectors   \* the collectors there can be

ASSUME GaugesConstants == Collectors \subseteq CollectorID

VARIABLES
    started,   \* the collectors with a ticker
    caller,    \* the call of StartCollecting, StopCollecting, ... in progress
    worker,    \* worker[cid]: its current collection
    gauges     \* MonitoredPods, MonitoredEndpoints, MonitoredMetrics

vars == <<allMetrics, started, caller, worker, gauges>>

Zero == [pods |-> 0, endpoints |-> 0, metrics |-> 0]

\* What a thread does next, for which collector, and what it counted.
At(pc, op, cid) == [pc |-> pc, op |-> op, cid |-> cid, counts |-> Zero]
Idle == [pc |-> "idle"]

Init ==
    /\ TrackerInit
    /\ started = {}
    /\ caller = Idle
    /\ worker = [cid \in Collectors |-> Idle]
    /\ gauges = Zero
-----------------------------------------------------------------------------
\* A refresh of the gauges is GetCounts and then three times Set, in this order.
Following == [count |-> "pods", pods |-> "endpoints", endpoints |-> "metrics"]

Refreshes(t) == t.pc \in {"count", "pods", "endpoints", "metrics"}

\* A thread after the next step of its refresh; StartCollecting then goes on.
Refreshed(t) ==
    IF t.pc = "count" THEN [t EXCEPT !.pc = "pods", !.counts = Counts]
    ELSE IF t.pc # "metrics" THEN [t EXCEPT !.pc = Following[@]]
    ELSE IF t.op = "start" THEN [t EXCEPT !.pc = "add"] ELSE Idle

SetGauge(t) ==
    gauges' = IF t.pc = "count" THEN gauges ELSE [gauges EXCEPT ![t.pc] = t.counts[t.pc]]

Invoke ==
    /\ caller = Idle
    /\ \E cid \in Collectors :
        \/ \E op \in {"start", "stop", "stopAll"} : caller' = At("purge", op, cid)
        \/ caller' = At("add", "not", cid)
    /\ UNCHANGED <<allMetrics, started, worker, gauges>>

\* StopCollecting, also called by StartCollecting: from its ticker to its purge.
Purge ==
    /\ caller.pc = "purge" /\ caller.op # "stopAll"
    /\ started' = started \ {caller.cid}
    /\ PurgeMetricsForCollectorEndpoint(caller.cid)
    /\ caller' = [caller EXCEPT !.pc = "count"]
    /\ UNCHANGED <<worker, gauges>>

\* StopCollectingAll, which sets the gauges to zero without counting.
PurgeAll ==
    /\ caller.pc = "purge" /\ caller.op = "stopAll"
    /\ started' = {}
    /\ PurgeAllMetrics
    /\ caller' = [caller EXCEPT !.pc = "pods"]
    /\ UNCHANGED <<worker, gauges>>

\* StartCollecting and NotCollecting add the endpoint and leave the gauges.
Add ==
    /\ caller.pc = "add"
    /\ AddMetricsFromCollector(caller.cid, {}, {})
    /\ started' = IF caller.op = "start" THEN started \cup {caller.cid} ELSE started
    /\ caller' = Idle
    /\ UNCHANGED <<worker, gauges>>

RefreshByCaller ==
    /\ Refreshes(caller)
    /\ caller' = Refreshed(caller)
    /\ SetGauge(caller)
    /\ UNCHANGED <<allMetrics, started, worker>>

CallerStep == Purge \/ PurgeAll \/ Add \/ RefreshByCaller

\* A tick starts a collection, which succeeds in the end or fails; one that has
\* failed changes nothing.
Tick(cid) ==
    /\ cid \in started /\ worker[cid] = Idle
    /\ worker' = [worker EXCEPT ![cid] = At("add", "collect", cid)]
    /\ UNCHANGED <<allMetrics, started, caller, gauges>>

CollectFails(cid) ==
    /\ worker[cid].pc = "add"
    /\ worker' = [worker EXCEPT ![cid] = Idle]
    /\ UNCHANGED <<allMetrics, started, caller, gauges>>

Collect(cid) ==
    /\ worker[cid].pc = "add"
    /\ \E ids \in FiniteSubsets(MetricIds) : \E overflow \in SUBSET ids :
            AddMetricsFromCollector(cid, ids, overflow)
    /\ worker' = [worker EXCEPT ![cid].pc = "count"]
    /\ UNCHANGED <<started, caller, gauges>>

\* Faulty: only the callers of the manager refresh the gauges.
RefreshSkipped(cid) ==
    /\ Refreshes(worker[cid])
    /\ worker' = [worker EXCEPT ![cid] = Idle]
    /\ UNCHANGED <<allMetrics, started, caller, gauges>>

RefreshByWorker(cid) ==
    /\ Refreshes(worker[cid])
    /\ worker' = [worker EXCEPT ![cid] = Refreshed(@)]
    /\ SetGauge(worker[cid])
    /\ UNCHANGED <<allMetrics, started, caller>>

WorkerStep(cid) == Tick(cid) \/ Collect(cid) \/ RefreshByWorker(cid)

Next ==
    \/ Invoke \/ CallerStep
    \/ \E cid \in Collectors : WorkerStep(cid) \/ CollectFails(cid)

\* Goroutines that can run do run; tickers tick and endpoints do not fail for
\* ever.
Spec ==
    /\ Init /\ [][Next]_vars
    /\ WF_vars(CallerStep)
    /\ \A cid \in Collectors : WF_vars(Tick(cid)) /\ SF_vars(Collect(cid)) /\ WF_vars(RefreshByWorker(cid))
-----------------------------------------------------------------------------
\* However calls and collections have raced: once the calls have ended, and as
\* long as an endpoint is collected, the gauges come to show what is tracked.
GaugesConverge ==
    <>[](caller = Idle /\ started # {}) => <>[](gauges = Counts)
=============================================================================
