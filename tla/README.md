# Specifications of the Hawkular OpenShift Agent

The agent runs on each node of an OpenShift cluster.  It watches the pods of
its node and the config maps of their namespaces, collects metrics from the
endpoints these config maps list, and sends them to a Hawkular Metrics server.
These modules specify its own logic: what is collected when pods and config maps
come and go, what the tracker of metrics and the status report say meanwhile,
and that nothing blocks, is lost or is left running.

Paths are relative to `src/`.

## The system

```
 cluster --pod watch--> pod goroutine ----\  unbuffered   +-> StartCollecting -> worker (one per ticker)
         --config map watches--> one       >--channel---> consumer             | tracker, status report
           goroutine per namespace -------/               +-> StopCollecting   | gauges
                                                                               v
 main: starts all of this, shuts it down              metrics channel, definitions channel --> storage --> server
```

| Component | Source | State | Operations | Talks to |
|---|---|---|---|---|
| Metrics tracker | `collector/tracker` | pod -> endpoint -> metric IDs, RWMutex | add with limit, purge endpoint, purge all, counts, listings | called by manager, status report |
| Collector manager | `collector/manager` | `Tickers` under `TickersLock`; per worker a cache of declared definitions | StartCollecting, StopCollecting, StopCollectingAll, NotCollecting; the collecting goroutine | tracker, status report, gauges, two storage channels |
| Collectors | `collector/impl`, `json`, `jolokia`, `prometheus` | none between collections (JSON: a second goroutine during one) | CollectMetrics, CollectMetricDetails | endpoint over HTTP, worker |
| Status report | `emitter/status` | messages of endpoints, rolling log, RWMutex | set message, delete all, Marshal (populate, cleanup) | tracker; HTTP handler |
| Agent's own metrics | `emitter/metrics` | two counters, three gauges | Add, Set | written by workers and callers of the manager |
| Emitter server | `emitter` | none | HTTP handlers | status report, gauges |
| Discovery | `k8s/discovery.go` | watch processors, inventories | watch and unwatch pods and config maps, send node events | API server, consumer |
| Inventories | `k8s/pod_inventory.go`, `k8s/configmaps.go` | maps without a lock | add, replace, remove, clear, iterate | used by all discovery goroutines |
| Node event consumer | `k8s/node_event_consumer.go` | `CollectorIds`: pod -> collectors | Start, Stop, one case per trigger | collector manager |
| Storage manager | `storage` | two channels of 100 | two consuming goroutines | server |
| Configuration, tags, expansion | `config`, `util`, `collector/metrics_endpoint.go` | none after start | load, validate, expand | all |
| Main | `hawkular-openshift-agent.go` | none | start, wait, shut down | all |

What makes each correct:

* **Tracker**: the limit of a pod holds over all its endpoints, what is refused
  is exactly what is returned, nothing tracked is evicted, no empty pod stays.
* **Manager**: at most one ticker per collector, and it can be stopped; a stopped
  collector is forgotten; calls return whatever storage and endpoints do;
  metrics and definitions go to storage together.
* **Status report**: no endpoint that is being collected loses its message.
* **Discovery and consumer**: what is collected is what pods and config maps
  ask for, whatever the order of events; collectors are registered with their
  pod; config maps are watched while a namespace has pods.
* **Collectors**: a collection returns exactly what the endpoint has of the
  metrics asked for, each under its own name, and leaves no goroutine behind.
* **Storage**: with working calls the server has the tags last sent; a sender's
  data and definitions have one tenant; a failing server does not stop the queues.
* **Configuration**: no ticker is faster than the minimum, no ticker runs for an
  endpoint its collector cannot ask, and credentials guard what the agent emits.
* **Shutdown**: at most what was in progress at the stop goes on; a send on a
  closed channel happens only then.

Behaviours that are hard: the goroutines of discovery share maps without locks
and are ordered by nothing but an unbuffered channel; watches time out and what
changes in between is only partly replayed; a worker is never told that its
ticker was stopped; three locks are nested; channels to storage fill up.  The
hazards are listed one by one, with their lines, in `PROJECT.json`.

## Modules

| Module | Models | Checked by | Depends on |
|---|---|---|---|
| `MetricsTracker` | the tracker, one atomic step per operation: the abstract specification of it | `MCAgentGauges` | |
| `TrackerLocking` | the same code with its RWMutex and its loops, several goroutines | `MCTrackerLocking` | `MetricsTracker`, and an instance of it that is the abstract tracker |
| `CollectorManager` | the manager's calls, its workers, the messages of the status report and the storage channels | `MCCollectorManager` | `MetricsTracker` |
| `AgentGauges` | how calls and workers set the gauges | `MCAgentGauges` | `MetricsTracker` |
| `NodeDiscovery` | discovery, inventories and consumer for one namespace, and their stop | `MCNodeDiscovery` | |
| `Tokens` | token expressions `${x}` and `${x=default}` | `MCCollection` | |
| `Tags` | maps of tags and how one is laid over another | `MCCollection` | |
| `JSONCollector` | one collection of the JSON collector, with its second goroutine | `MCCollection` | |
| `JSONDocuments` | what a reader of the documentation expects of a document, to compare a collection with | `MCCollection` | `JSONCollector` |
| `JolokiaCollector`, `PrometheusCollector` | what these collectors make of the answers of an endpoint, as functions | `MCCollection` | `Tags` |
| `Collection` | a round of a worker: names, collector, tracker, IDs, tags, definitions | `MCCollection` | the above but `JSONDocuments`, and `MetricsTracker` |
| `AgentConfig` | configuration, its validation and its use, as functions | `MCAgentLifecycle` | |
| `MetricsStorage` | the two channels, their consumers and the server | `MCAgentLifecycle` | |
| `AgentLifecycle` | main: start, secrets, configured endpoints, signal, stop | `MCAgentLifecycle` | `AgentConfig`, `MetricsStorage` |

Theorems are in modules of their own, checked by TLAPS:

| Module | Proves about | Uses |
|---|---|---|
| `MetricsTrackerProofs` | `MetricsTracker` | |
| `TrackerLockingProofs` | `TrackerLocking` | `MetricsTrackerProofs` |
| `CollectorManagerProofs` | `CollectorManager` | `MetricsTrackerProofs` |
| `AgentGaugesProofs` | `AgentGauges` | `MetricsTrackerProofs` |
| `MetricsStorageProofs` | `MetricsStorage` | |
| `AgentLifecycleProofs` | `AgentLifecycle`, `AgentConfig` | `MetricsStorageProofs` |
| `NodeDiscoveryProofs` | `NodeDiscovery` | |
| `CollectionProofs` | `Collection`, the collectors, `Tokens`, `Tags` | `MetricsTrackerProofs` |

A collector, or a worker, appears at three levels.  `CollectorManager` has its
locks, channels and ticker, and a collection yields just a set of IDs.
`Collection` has what happens in between to names, labels and types, and neither
locks nor ticker.  `AgentLifecycle` keeps only the order in which it sends.

### State and actions

* `MetricsTracker.allMetrics` is the field of that name.  `Overflows` gives
  every result `AddMetricsFromCollector` can return, since the order of the
  metrics it is given follows the iteration over Go maps.
* In `TrackerLocking` a call goes through `Invoke`, `Lock` or `RLock`, the steps
  of its loop, and `Return` (the deferred unlock).  `committed` is the map as of
  the last release of the write lock; it is what the refinement
  `ImplementsTracker` maps `allMetrics` to.
* In `CollectorManager` a step ends where the code can be interrupted with an
  effect on others: at the acquisition of a lock, a channel operation, a tick.
  `StopTicker`, `RemoveMessage` and `Purge` are StopCollecting, which holds
  `TickersLock` throughout; `AddEndpoint`, `FirstMessage` and `Spawn` are the
  rest of StartCollecting, which takes the lock again only for `Spawn`.  `Wake`
  to `SendDefs` are one round of the loop of a worker.  `registered` is a history
  variable.
* In `AgentGauges` a refresh is four steps, GetCounts and three calls of Set.
* In `NodeDiscovery` the cluster and its watches are external: `ChangePod`,
  `ChangeConfig`, `TimeOut`.  A new watch begins with an ADDED event for all
  that exists and never mentions what was deleted before.  `PodEvent`,
  `LookUpConfig`, `SendPodEvent` and `WatchConfigs` or `UnwatchConfigs` are one
  round of the pod goroutine; `CheckAbort` to `IterationEnds` those of a config
  map goroutine; `Consume` is one case of `consumeNodeEvents` with
  startCollecting and stopCollecting, which call a manager that is here only
  the map `collecting`.  `StopPodWatch` to `StopCollectingAll` are main's way
  through NodeEventConsumer.Stop and StopCollectingAll; a goroutine that sends
  after `CloseChannel` ends the agent.  While main stops collectors `Consume`
  starts any of its endpoints: main may have stopped the others in between.
* In `JSONCollector` the recursion of `processJSON` is a stack: each element is
  what a loop over a map has left to visit, in any order.  `Send` is the meeting
  of the two goroutines on the unbuffered channel.  `Return` reads the list
  while `Gather` may be writing to it, which is a data race: Go writes the
  length before the element, so the reader may find the last metric missing,
  there, or blank (`Readable`).
* In `Collection` a name or an ID is a sequence of texts and tokens, so that an
  expansion is what it is in the code: a replacement that may leave tokens for
  the next one, or an empty text.  `slice` is the array of metrics that the pods
  of a configuration share.  `Construct`, `ExpandName` and `CacheMetrics` come
  before the first tick; `CollectPrometheus`, `CollectJolokia` and `CollectJSON`
  are CollectMetrics; `Process` is the loop from there to the send of the
  metrics, with the tracker's answer; `Define` and `DefineWithoutDetails` are
  createMetricDefinition.  How a Jolokia name is split is the table `Spelling`.
* In `JolokiaCollector` `processSingleCompositeAttribute` goes down the maps of a
  composite attribute and makes the metrics on the way back, as the recursion of
  the code does, in functions of the depth, up to `Nesting`.
* In `MetricsStorage` the definer does one call to the server per step and every
  call may fail; `server` maps tenant and ID to the tags stored, `outcome` is a
  history of what was sent last under a key and whether a call for it failed,
  `written` of the tenants a sender's batches were stored under.
* In `AgentConfig` durations are seconds and credentials the set of their parts
  that are not empty; a configuration has one setting of each kind there is a
  check for.  In `AgentLifecycle` a poll for a secret is a unit of time and
  `Patience` stands for the five minutes.

## Runs

| Run | Shows | Bounds |
|---|---|---|
| `tracker_locking` | the locked code makes only the atomic steps; counts are a snapshot; overflow is exact; calls return | 2 goroutines, lists with a duplicate and with more metrics than the limit |
| `gauges_converge` | limit of the pod, no empty pod, no eviction, under collections that race with calls; gauges follow the counts in the end | 2 collectors of one pod, limit 1: one of them fills the pod and the other overflows; for all sizes there are proofs |
| `manager_restarts` | every ticker that runs can be stopped; an active endpoint is tracked and has its message | 2 collectors of one pod with limit 1, 2 workers ever started, so that a stopped worker overlaps with its successor |
| `manager_stops` | calls return although storage may stop and both channels be full; if it does not stop, a stopped worker comes to rest | consumer and main call; 1 worker; channels of capacity 1 instead of 100: full is what matters |
| `manager_forgets` | *violated*: a late collection enters a stopped endpoint again | as above |
| `discovery_settles` | pods and config maps that appear in any order are all collected; after a shutdown only one event can leave collectors behind | 2 pods, 1 config map, 1 timeout of any watch: all changes there can be; a shutdown at any moment |
| `discovery_inventory` | collectors stay registered, watchers follow pods, unusable contents stay out | 2 pods, 4 contents of one config map, any 4 changes, 1 timeout, 2 successive watchers |
| `discovery_lost_config` | *violated*: a pod loses its collectors for good | 1 pod, 3 changes, no timeout |
| `collection` | every pod gets what its configuration names; IDs tell time series apart; definitions are those of what is stored, with its types and labels; what Jolokia answers and JSON documents hold is collected, once | 1 or 2 pods, 9 configurations, 2 rounds, limit 2, so that it is reached within a round, over two, and by neither; labels that some points lack, summaries, missing and failing answers, composite and nested attributes, wildcards on each level, 6 JSON documents.  `MetricIds` is empty: it bounds the calls of the tracker's own specification, and IDs are made by the workers here |
| `json_collection_loses` | *violated*: the last metric is not returned | the JSON configurations of `collection` |
| `names_shared` | *violated*: a pod is not asked for its own metrics | 2 pods, one metric |
| `storage` | pace of tickers, guarded emitter, usable endpoints; tags as sent last, none lost between; one tenant per sender; start, stop and queues go on | 16 starts, right, wrong and on the boundary; 2 senders, one of them without a tenant; channels of 1, 4 batches, definitions that change a tag, drop one and have none; every call may fail |

The four violations are described in `PROJECT.json`:

* **`manager_forgets`**.  `time.Ticker.Stop` neither empties nor closes the
  ticker's channel.  A worker with a tick due, or in the middle of a
  collection, calls `AddMetricsFromCollector` after the purge, and the endpoint
  stays in the tracker: in the status report, in the gauges, and in the limit of
  its pod, until the same collector is started and stopped again.
* **`discovery_lost_config`**.  The event of a modified pod is built with the
  configuration found at that moment and then waits for the channel.  When the
  config map arrives meanwhile, and its event is consumed first, the older pod
  event stops what was just started, taking the missing configuration for a
  deleted one.
* **`json_collection_loses`**.  `CollectMetrics` closes its channel and returns
  the list at once; the goroutine that appends to it may not have got to the last
  metric.  `OnlyTheLastIsLost` says that it is never more than this one.
* **`names_shared`**.  The worker of one pod expands the tokens of a metric's name
  in the slice that all pods with the config map share; the worker of the other
  finds no token any more, and its endpoint is asked for the other pod's metric.

`EventuallySettled` fails in three more ways if `Changes` and
`MaxTimeouts` allow them: a stale configuration replaces a modified one
(`"config modified"`, two pods), a collector is started for a pod whose deletion
was already consumed (`"pod deleted"`), and an endpoint that was disabled between
two watches goes on, because for an ADDED config map nothing is stopped
(`"config modified"`, one timeout).  This is why `discovery_settles` has
additions only.

In the same way the gauges are only eventually right: a worker that counted
before StopCollecting may set them after it, and if no other endpoint is
collected they stay wrong.  `GaugesConverge` therefore asks for one that is.

Some properties of `Collection` are stated for less than one might hope, because
the code does not do more.  `TypesMatch` leaves out a metric that was gone when
the details were scraped (it is then declared a gauge for good), and the instance
has no JSON array that is configured as a counter (its statistics are gauges).
`LeavesAreCollected` leaves out maps inside composite attributes, where the last
map replaces what was found before.  The passing run has neither a token in the
name of a Prometheus or JSON metric, which would never be found, nor an invalid
Jolokia name before a valid one, after which answers are paired with the wrong
metrics.  All this is in the model and listed under the hazards.

### Fairness

* Goroutines that can take a step take one in the end (weak fairness).  For
  steps that wait for a lock or for the receiver of an unbuffered channel
  fairness is strong: Go queues waiting senders, `sync.Mutex` hands over to
  waiters that starve, and `sync.RWMutex` holds new readers back when a writer
  waits.
* `CollectorManager.Spec` assumes nothing of endpoints and storage.  That
  endpoints answer or fail and storage keeps receiving is the premise
  `StorageReceives` of `StoppedWorkerQuiesces` alone.
* Tickers tick (`AgentGauges`); the cluster need never change, a watch need
  never time out and the agent need never be stopped (`NodeDiscovery`).
* Both goroutines of a JSON collection run (weak fairness); the answer of the
  endpoint need not come.  Nothing is assumed of the workers in `Collection`.
* `AgentLifecycle`: main and the two consumers go on as long as they can, which
  assumes that each call to the server or to Kubernetes ends, maybe with an error:
  the HTTP client gives up on a server that does not answer
  (`http/http_client.go:63`), and the Kubernetes client is taken to do so.  Workers
  and the signal need not come.

### Named bounds

`Workers` (tickers ever started), `MaxChanges`, `MaxTimeouts`, `Watchers`
(watchers ever started), `MaxRounds` (collections of a worker), `MaxSends`
(batches) and `Patience` (polls) bound executions; `ChanCap` stands for the
capacity 100; `Nesting` bounds how deep maps are nested in a composite attribute
of Jolokia (the code has no bound).  Everything else is the size of a set.

## Proofs

The theorems hold for every value of the constants that meets the assumptions
of the module: any sets of pods, endpoints, metrics, collectors, workers,
config maps, senders, definitions, configurations, families, documents and answers,
any capacity of the channels, any limit and any value of the named bounds.  They
use no fairness.  In each module the
argument is an inductive invariant, called `IInv` (in `MetricsStorageProofs`,
`StorageInv`; in `CollectionProofs` also `JSONInv` and `Named`), with one lemma or
step per action; TLC has checked each of them on the constants of the module's runs.

The assumptions are about constants only, and TLC evaluates them in the runs of
the modules that declare or extend them:

| Assumption | Says | Because |
|---|---|---|
| `TrackerConstants` | there are finitely many endpoints, the limit is positive; there may be infinitely many metric IDs, of which a collection yields finitely many | `validateConfig` enforces the limit |
| `LockingConstants` | each goroutine's calls are for collectors of the tracker and lists of its metrics | |
| `ManagerConstants` | an endpoint ID belongs to one pod; channels have a capacity | `collector/metrics_collector.go:33` |
| `GaugesConstants` | collectors are those of the tracker | |
| `StorageConstants` | batches are lists of definitions whose tags are maps | the types of the code |
| `ConfigConstants` | a duration that does not parse is below every bound | `validateConfig` refuses it where it refuses a short one |
| `StartConstants` | environments, files and endpoints have values of the right kind, and an endpoint that may be collected from has a worker | the types of the code |
| `JolokiaConstants` | `Nesting` is positive | |
| `CollectionConstants` | configurations list metrics with a name that is not empty, answers have lists of families, samples and fields, and pods and endpoints are those of the tracker | the decoders; `ValidateEndpoint` (`collector/metrics_endpoint.go:139`) |
| `DiscoveryConstants` | each content of a config map has an entry, valid, invalid or missing, and names endpoints | |

### The tracker

| Theorem | Statement |
|---|---|
| `TrackerTypeCorrect` | `TrackerSpec => []TrackerTypeOK` |
| `PodLimitHolds` | `TrackerSpec => []PodLimit` |
| `NoEmptyPodHolds` | `TrackerSpec => []NoEmptyPod` |
| `NoEvictionHolds` | `TrackerSpec => NoEviction` |
| `LockingTypeCorrect` | `TrackerLocking!Spec => []TypeOK` |
| `LockingImplementsTracker` | `TrackerLocking!Spec => ImplementsTracker`, the refinement |
| `OverflowIsExactHolds` | `TrackerLocking!Spec => OverflowIsExact` |
| `CountsAreSnapshotHolds` | `TrackerLocking!Spec => []CountsAreSnapshot` |
| `LimitHoldsInside` | `TrackerLocking!Spec => []PodLimit`, of the map a writer is working on |

Given its type each property of the atomic tracker is inductive: the limit because
the number of metrics of a pod is the cardinality of a set that an addition
enlarges by at most `Room`, and a purge makes smaller.

For the code with its lock the invariant says of each goroutine how far its loop
has come: of an addition, that the map is the old one with the IDs it has looked at
and not refused (`Adding`); of a purge, that the endpoint, then the pod is gone
(`EndpointPurged`, `PodPurged`); of GetCounts, that the counts are those of the
pods visited (`Counting`).  `LockOK` says who has the lock, and `Clean` that without
a writer at work the map is the one of the last unlock; so `committed` changes
only at a writer's unlock, and there `Adding` is the atomic operation
(`AddIsAtomic`).  An ID may be in the list twice or tracked already:
the loop then neither counts nor refuses it (`TrackAgain`).

### The collector manager and the gauges

| Theorem | Statement |
|---|---|
| `ManagerTypeCorrect` | `CollectorManager!Spec => []TypeOK` |
| `StopsExclude` | the sections under `TickersLock` exclude each other |
| `RunningTickersAreKnownHolds` | `CollectorManager!Spec => []RunningTickersAreKnown` |
| `ActiveIsReportedHolds` | `CollectorManager!Spec => []ActiveIsReported` |
| `ManagerUsesTracker` | `CollectorManager!Spec => TrackerSpec` |
| `ManagerKeepsPodLimit`, `ManagerEvictsNothing` | `[]PodLimit` and `NoEviction`, from the last one |
| `GaugesUseTracker`, `TrackerUnderGauges` | the same for `AgentGauges`, with all properties of the tracker |

`RunningTickersAreKnown` is not inductive alone: StartCollecting stops the old
ticker and lets go of the lock before it takes it again to put the new one into
`Tickers`, and nothing would be left to stop the old one if another had come in
between.  `RestartHasNoTicker` excludes it, and rests on `MainStops`: main never
starts a collector, and the consumer makes one call at a time.  If endpoints could be
started by two goroutines, tickers would be lost.

`ActiveIsReported` needs `Shown`, which includes what Marshal has read: the cleanup
of the status report keeps a message only if its endpoint was found in a pod
of a list that was made earlier, so an endpoint must be in the tracker before the
list is read, or its message be set after.  That holds since
AddEndpoint comes before the message in StartCollecting, until main begins to stop.

### Storage and the agent's life

| Theorem | Statement |
|---|---|
| `DefinitionsAreAsSentLast` | `StorageSpec => []AsSentLast` |
| `TenantsStayApart` | `StorageSpec => []OneTenantPerSender` |
| `TagsInUseAreKept` | `StorageSpec => KeepsTagsInUse` |
| `LifecycleUsesStorage` | `AgentLifecycle!Spec => StorageSpec` |
| `StorageInLifecycle` | the first three, of the agent's life |
| `LifecycleTypeCorrect` | `AgentLifecycle!Spec => []TypeOK` |
| `TickersArePacedHolds`, `TickersAreUsableHolds` | no ticker is too fast or has no use |
| `EmitterIsGuardedHolds` | credentials guard what the emitter emits |
| `PanicsOnlyAtTheEndHolds` | a send on a closed channel happens only at the end |

`StorageSpec` is storage with any environment: senders send at any time,
someone starts it, when it is not running, and stops it.
`LifecycleUsesStorage` shows that main and the workers are such an environment,
which needs `NothingRuns`: main starts storage once.  `AsSentLast` needs
`Deleting`: if no call failed, the tags the server has beyond those sent are
still to be deleted, and none of those to be deleted is among those sent.

Of the agent, `Accepted` carries what validation has found to where it is used: a
configuration that is not refused when it is loaded has intervals in order, usable
credentials and endpoints, and stays as it is.  `IntervalIsPaced`, `HeaderIsRight` and
`RepliesAreGuarded` derive the properties from validation, for any settings; that the
environment and the file together give a configuration at all is `LoadedIsConfig`.

### Discovery

| Theorem | Statement |
|---|---|
| `DiscoveryTypeCorrect` | `NodeDiscovery!Spec => []TypeOK` |
| `CollectorsAreRegisteredHolds` | `NodeDiscovery!Spec => []CollectorsAreRegistered` |
| `WatchersFollowPodsHolds` | `NodeDiscovery!Spec => []WatchersFollowPods` |
| `LeftoversOfOneEventHolds` | `NodeDiscovery!Spec => []LeftoversOfOneEvent` |

`CollectorsAreRegistered` is inductive given the types.  `WatchersFollowPods`
is about the moments between two events of the pod goroutine, so `Following`
adds what holds while it is at work: the inventory is changed before the event
is sent, the watcher after it.  `LeftoversOfOneEvent` needs that once main is
through, nothing was left before the consumer's last event and no event follows
(`Leftovers`).  The listing a watch begins with is finite because `Cluster`
keeps finite what exists, of pods that may be infinitely many.

### Collections

| Theorem | Statement |
|---|---|
| `JSONTypeCorrect` | `JSONSpec => []JSONTypeOK`: nothing is left to be sent when the channel is closed |
| `OnlyTheLastIsLostHolds` | `JSONSpec => []OnlyTheLastIsLost` |
| `AllIsGatheredOnce` | when the goroutine has ended it has each ID and tags that were sent, once |
| `CollectionRunsJSON` | `Collection!Spec => JSONSpec` |
| `OnlyTheLastIsLostAmongWorkers` | `[]OnlyTheLastIsLost`, from the last one |
| `TypeCorrect` | `Collection!Spec => []TypeOK`: no token is left in an ID that is stored or defined |
| `WorkersKeepTheLimit` | `Collection!Spec => []PodLimit` |
| `DefinedAreTrackedHolds` | `Collection!Spec => []DefinedAreTracked` |
| `LabelsOfOnePointHolds` | `Collection!Spec => []LabelsOfOnePoint` |
| `PointsAreLeaves` | what is made of a Jolokia answer has the points of `Leaves`, and no other, if composite attributes hold no maps (`IsFlat`) and no wildcard is for a key called 1 or 2 |
| `CollectsWhatIsMonitoredHolds` | `Collection!Spec => [](KeepsNames(endpoint) /\ AsksInOrder(endpoint) /\ AnswersTakenApart => CollectsWhatIsMonitored)` |
| `EveryLeafIsCollected` | `Collection!Spec => [](endpoint.kind = "jolokia" /\ KeepsNames(endpoint) /\ AsksInOrder(endpoint) => \A p : HasLeaves(p))`: the headers of a metric are the leaves of its own answer, if that is one `PointsAreLeaves` is about |

**The JSON collector.**  `json_collection_loses` shows that the list CollectMetrics
returns may lack a metric; here is what bounds the loss for any document.
`Gathering` says that the list has the keys of all that was sent but the metric
the goroutine still has in its hands, and CollectMetrics reads at least these.
`JSONInv` is inductive alone, and since the workers take the steps of `JSONNext`
and no other that changes these variables, it holds among them.

**The workers** (`IInv`).  Five things are kept of each worker: its headers are
lists of data points, its map has metrics of the slice and is empty only without
any (`HasMap`), IDs are expanded (`Expanded`), definitions go with the tracker
(`Defining`) and with the labels (`Labelling`).  `DefinedAreTracked` is not
inductive, since it speaks of the end of a round; `Defining` says what holds in
the middle of one: that the metrics tracked are those defined and those about to be, and
that a declared one is defined.  The latter is why a round may leave out declared
metrics.  That other workers of the pod add to the tracker meanwhile does
not disturb it, as an addition changes one endpoint's metrics (`AddChanges`).
`Expanded` holds because a template that has tokens is expanded once more, by the
environment of a data point, and this time leaves none.

**Which metrics are collected** (`Named`).  The names of a configuration go through
the slice, the collector, the endpoint's answers and the worker's map, and at each
place the invariant says whether they are as configured or expanded for the pod
(`Naming`).  That the right metrics arrive is not true of every configuration and
every answer.  The theorems name what they ask for, and each condition leaves out
one thing that the code gets wrong:

* `KeepsNames`, of a configuration: no name has a token, or one pod alone uses the
  configuration and its collector reads the slice when it asks, as Jolokia's does.
  `names_shared` is what happens to two pods; a Prometheus collector with one
  pod has copied the names before they are expanded and never finds them.
* `AsksInOrder`, of a configuration: no invalid Jolokia name comes before a valid
  one.  Invalid names are not asked for, and the answers are still paired with the
  metrics by their index (`jolokia_metrics_collector.go:104`, `:124`), so that the
  metrics after an invalid one get each other's answers.
* `TakenApart`, of an answer: none of its composite attributes holds maps, which would
  replace what was found before them (`process_jolokia_response.go:264`), and the name
  has no wildcard for a key called 1 or 2, whose tag would replace that of an attribute
  or a path.  `CollectsWhatIsMonitoredHolds` asks it of all answers at hand
  (`AnswersTakenApart`), since a metric may lose all its points in this way;
  `EveryLeafIsCollected` asks it only of the answer to the name it speaks of.

`Named` is inductive for configurations that meet the first two.  In `collection`
these are all Prometheus configurations and both of Jolokia, one of which has an
invalid name in its last place; there are answers of which one name's is taken
apart and another's is not.  That several pods use one Jolokia configuration without
tokens is not in the instance; the theorems have it.

`PointsAreLeaves` rests on what the loops of the collector yield at each level
(`FlatComposite`, `AttributePoints`, `MBeanPoints`), and these on what `FlattenSeq`,
a fold, makes of a list of lists (`FlattenedList`) and on `MaxIsIn`.  The library's
theorems of induction take a predicate, which the prover cannot be given, so
`Induction` states it for a set of numbers in place of a predicate; recursive
functions are shown to exist, level by level, in the same way (`MapsExist`).

### Only model-checked

* Liveness: `CallsReturn` (twice), `StoppedWorkerQuiesces`, `GaugesConverge`,
  `EventuallySettled`, `MainMovesOn`, `QueuesMoveOn`, `CollectionEnds`.  The prover
  has no rules for fairness with `ENABLED`.
* `SeriesStayApart` and `TypesMatch`.  They are true of the instance's IDs and
  not of all: an ID can be configured so that two series share it, and then
  the type of one is declared for both.
* The counting part of `LeavesAreCollected`, that each leaf has one header: two
  metrics may be configured under one name, and two MBeans may differ in a
  key that is no wildcard.  The other part is `EveryLeafIsCollected`.
* `GathersWhatIsThere`, which compares the JSON collector's walk with a recursive
  reading of the document.  Its definition (`JSONDocuments`) is beyond the prover's
  backends.

## Not modelled

* Text: how names are split, the names of units, the URL of an endpoint, the
  format of what is scraped, and the `TrimLeft` that reads a secret's specifier.
  An ID is not empty: of a metric whose ID expands to an empty text
  the code stores nothing and still sends a definition
  (`collector/manager/metrics_collector_manager.go:299`, `:307`).
* IDs and keys made of different parts whose texts are the same.  The code writes the
  prefix, the ID and the values of labels into one text without escaping
  (`collector/manager/metrics_collector_manager.go:218` to `:256`), and the ID and tags
  of a JSON metric into one key with nothing between them
  (`collector/impl/json_metrics_collector.go:121`); the models compare the parts
  (`Template`, `IsNew`).
* Several endpoints of one pod in `Collection`: a pod has one endpoint and one worker
  there.  The pod's limit over several workers is in `CollectorManager` and
  `AgentGauges`.
* Time stamps, descriptions and units of definitions, and the tenant of each
  single metric (a sender has one).  Tokens in the values of tags.
* The credentials of a pod's endpoint, TLS, listeners, HTTP and Kubernetes
  clients, logging, and the rolling log of the status report.
* Endpoint IDs are assumed to be unique over all pods, as
  `collector/metrics_collector.go:33` says; they are built from a pod's name and
  address without its UID.
* The Go runtime aborts a program when it detects unsynchronised use of a map;
  the models of the inventories show only what happens when it does not.  A watch
  that cannot be created leaves a nil watcher, which ends the agent, and is left
  out for the same reason.
* `AgentLifecycle` has the endpoints of the configuration file only.  The stop of
  the collectors of pods is in `NodeDiscovery`.  A tick that is still buffered when a
  ticker is stopped is in `CollectorManager`, and not here.
* That the configuration file empties a credential which the environment gave:
  `Unmarshal` of `AgentConfig` lets a file add parts of the credentials only.

## Plan

1. *(done)* tracker, its lock, its proofs; collector manager; gauges; discovery
   and consumer with their shutdown; the three collectors and a worker's round;
   configuration, storage, start and stop of the agent.
2. *(done)* proofs: the tracker with its lock, the collector manager, the gauges'
   use of the tracker, storage, the agent's life, discovery, collections.
3. The credentials of a pod's endpoint in secrets, and the rolling log of the
   status report.
4. The types of definitions (`TypesMatch`) for configurations whose IDs keep
   series apart, which needs an invariant over the rounds of a worker.
