------------------------- MODULE CollectorManager -------------------------
(***************************************************************************)
(* The metrics collector manager                                           *)
(* (collector/manager/metrics_collector_manager.go) with the metrics       *)
(* tracker and the endpoint messages of the status report.                 *)
(*                                                                         *)
(* StartCollecting spawns a goroutine (a worker) that collects at each tick*)
(* of its ticker, registers the metrics with the tracker, sends them and   *)
(* the missing metric definitions to storage.  StopCollecting stops the    *)
(* ticker and forgets the endpoint.  Two goroutines call the manager: the  *)
(* consumer of node events, and main at shutdown.  (Main also starts the   *)
(* endpoints of the configuration file, before the consumer exists; they   *)
(* are calls of the consumer here.)                                        *)
(*                                                                         *)
(* Left out: collection intervals, log messages, the wording of endpoint   *)
(* messages, the names, tags and values of metrics.  What one collection   *)
(* yields is the set of metric IDs left after unknown metrics were removed *)
(* and labelled ones split.  The agent's gauges are in module AgentGauges. *)
(***************************************************************************)
EXTENDS MetricsTracker

CONSTANTS
    Collectors,   \* collectors there can be: records of a pod and an endpoint
    Workers,      \* bound: one worker for each ticker ever started
    ShutsDown,    \* whether main may shut the agent down
    Reports,      \* sets of metric IDs a collection can yield
    ChanCap       \* capacity of each of the two storage channels

ASSUME ManagerConstants ==
    /\ Collectors \subseteq CollectorID
    \* endpoint IDs are unique even across pods
    /\ \A c, d \in Collectors : c.endpoint = d.endpoint => c = d
    /\ Reports \subseteq FiniteSubsets(MetricIds)
    /\ ShutsDown \in BOOLEAN
    /\ ChanCap \in Nat \ {0}

Callers == {"consumer", "main"}

VARIABLES
    tickersLock,   \* the caller that holds TickersLock, in a set
    tickers,       \* Tickers: collector ID -> worker of its ticker
    messages,      \* endpoints that have a message in the status report
    caller,        \* caller[c]: the call c is in
    worker,        \* worker[w]: the goroutine and its ticker
    reporter,      \* the status emitter inside Marshal
    metricsChan,   \* number of batches of metrics on their way to storage
    defsChan,      \* number of batches of definitions on their way to storage
    registered     \* history: collectors started or reported and not stopped since

threads == <<caller, worker, reporter>>
channels == <<metricsChan, defsChan>>
vars == <<allMetrics, tickersLock, tickers, messages, caller, worker, reporter,
          metricsChan, defsChan, registered>>

NoCall == [op |-> "none", pc |-> "idle"]

\* A worker that has not been spawned yet, and one that has just been.
Unborn == [pc |-> "unborn"]
Newborn(cid) == [pc |-> "wait", cid |-> cid, ticking |-> TRUE, tick |-> FALSE, declared |-> {},
                 batch |-> {}, needed |-> {}]

Init ==
    /\ TrackerInit
    /\ tickersLock = {}
    /\ tickers = [c \in {} |-> {}]
    /\ messages = {}
    /\ caller = [c \in Callers |-> NoCall]
    /\ worker = [w \in Workers |-> Unborn]
    /\ reporter = [pc |-> "idle"]
    /\ metricsChan = 0 /\ defsChan = 0
    /\ registered = {}

MoveCaller(c, pc) == caller' = [caller EXCEPT ![c].pc = pc]
\* Between its calls main is idle only before the shutdown.
EndCall(c) ==
    caller' = [caller EXCEPT ![c] = IF c = "main" THEN [op |-> "none", pc |-> "shutdown"] ELSE NoCall]
MoveWorker(w, pc) == worker' = [worker EXCEPT ![w].pc = pc]

\* Back to the range over the ticker's channel.
EndRound(w) == worker' = [worker EXCEPT ![w].pc = "wait", ![w].batch = {}, ![w].needed = {}]

\* Faulty: messages are set without the lock of the status report.
SetEndpointMessageUnlocked(cid) == messages' = messages \cup {cid.endpoint}

\* SetEndpointMessage waits for the status report's lock, which only Marshal
\* holds for more than a step.
SetEndpointMessage(cid) == reporter.pc = "idle" /\ messages' = messages \cup {cid.endpoint}

\* The empty message.
RemoveEndpointMessage(cid) == reporter.pc = "idle" /\ messages' = messages \ {cid.endpoint}

Without(f, k) == [x \in DOMAIN f \ {k} |-> f[x]]
-----------------------------------------------------------------------------
(* The callers.                                                            *)

\* The consumer calls StartCollecting, StopCollecting or NotCollecting.
Invoke ==
    /\ caller["consumer"].pc = "idle"
    /\ \E op \in {"start", "startDisabled", "stop", "not"}, cid \in Collectors :
        /\ op = "start" => \E w \in Workers : worker[w] = Unborn
        /\ caller' = [caller EXCEPT !["consumer"] =
                [op |-> op, cid |-> cid,
                 pc |-> IF op = "not" THEN "add" ELSE "lock"]]
        /\ registered' = IF op = "stop" THEN registered ELSE registered \cup {cid}
    /\ UNCHANGED <<allMetrics, tickersLock, tickers, messages, worker, reporter, channels>>

\* Shutdown: main stops the collectors it finds in the consumer's CollectorIds
\* one by one and then all that are left.
InvokeMain ==
    /\ ShutsDown
    /\ caller["main"].pc \in {"idle", "shutdown"}
    /\ \/ \E cid \in Collectors :
            caller' = [caller EXCEPT !["main"] =
                [op |-> "stop", cid |-> cid, pc |-> "lock"]]
       \/ caller' = [caller EXCEPT !["main"] = [op |-> "stopAll", pc |-> "lock"]]
    /\ UNCHANGED <<allMetrics, tickersLock, tickers, messages, worker, reporter, channels, registered>>

\* Faulty: the ticker is removed from Tickers but never stopped.
ForgetTicker(c) ==
    /\ caller[c].pc = "lock" /\ caller[c].op # "stopAll"
    /\ tickersLock = {} /\ tickersLock' = {c}
    /\ tickers' = Without(tickers, caller[c].cid)
    /\ MoveCaller(c, "removeMessage")
    /\ UNCHANGED <<allMetrics, messages, worker, reporter, channels, registered>>

\* StopCollecting takes TickersLock and stops the ticker, if there is one.  It
\* ticks no more, but its worker is not told and its channel stays open.
StopTicker(c) ==
    /\ caller[c].pc = "lock" /\ caller[c].op # "stopAll"
    /\ tickersLock = {} /\ tickersLock' = {c}
    /\ LET cid == caller[c].cid
       IN  /\ worker' = [w \in Workers |->
                IF cid \in DOMAIN tickers /\ w = tickers[cid]
                THEN [worker[w] EXCEPT !.ticking = FALSE] ELSE worker[w]]
           /\ tickers' = Without(tickers, cid)
    /\ MoveCaller(c, "removeMessage")
    /\ UNCHANGED <<allMetrics, messages, reporter, channels, registered>>

RemoveMessage(c) ==
    /\ caller[c].pc = "removeMessage" /\ caller[c].op # "stopAll"
    /\ RemoveEndpointMessage(caller[c].cid)
    /\ MoveCaller(c, "purge")
    /\ UNCHANGED <<allMetrics, tickersLock, tickers, worker, reporter, channels, registered>>

\* The purge, and the deferred unlock.  Called from StartCollecting,
\* StopCollecting returns there.
Purge(c) ==
    /\ caller[c].pc = "purge" /\ caller[c].op # "stopAll"
    /\ PurgeMetricsForCollectorEndpoint(caller[c].cid)
    /\ tickersLock' = {}
    /\ IF caller[c].op = "stop"
       THEN EndCall(c) /\ registered' = registered \ {caller[c].cid}
       ELSE MoveCaller(c, "add") /\ UNCHANGED registered
    /\ UNCHANGED <<tickers, messages, worker, reporter, channels>>

\* StartCollecting and NotCollecting track the endpoint, also on errors.
AddEndpoint(c) ==
    /\ caller[c].pc = "add"
    /\ AddMetricsFromCollector(caller[c].cid, {}, {})
    /\ MoveCaller(c, "message")
    /\ UNCHANGED <<tickersLock, tickers, messages, worker, reporter, channels, registered>>

\* The message of an endpoint that is not collected ends the call; STARTING
\* precedes the ticker.
FirstMessage(c) ==
    /\ caller[c].pc = "message"
    /\ \/ /\ caller[c].op \in {"startDisabled", "not"}
          /\ SetEndpointMessage(caller[c].cid)
          /\ EndCall(c)
       \/ /\ caller[c].op = "start"
          /\ SetEndpointMessage(caller[c].cid)
          /\ MoveCaller(c, "spawn")
    /\ UNCHANGED <<allMetrics, tickersLock, tickers, worker, reporter, channels, registered>>

\* The rest of StartCollecting, under TickersLock: a new ticker and its worker.
Spawn(c) ==
    /\ caller[c].pc = "spawn"
    /\ tickersLock = {}
    /\ LET cid == caller[c].cid
       IN  \E w \in Workers :
            /\ worker[w] = Unborn
            /\ worker' = [worker EXCEPT ![w] = Newborn(cid)]
            /\ tickers' = [d \in DOMAIN tickers \cup {cid} |-> IF d = cid THEN w ELSE tickers[d]]
    /\ EndCall(c)
    /\ UNCHANGED <<allMetrics, tickersLock, messages, reporter, channels, registered>>

\* StopCollectingAll: tickers, messages, tracker, all under TickersLock.
StopAllTickers(c) ==
    /\ caller[c].pc = "lock" /\ caller[c].op = "stopAll"
    /\ tickersLock = {} /\ tickersLock' = {c}
    /\ worker' = [w \in Workers |-> IF \E d \in DOMAIN tickers : tickers[d] = w
                                    THEN [worker[w] EXCEPT !.ticking = FALSE] ELSE worker[w]]
    /\ tickers' = [d \in {} |-> {}]
    /\ MoveCaller(c, "removeMessage")
    /\ UNCHANGED <<allMetrics, messages, reporter, channels, registered>>

RemoveAllMessages(c) ==
    /\ caller[c].pc = "removeMessage" /\ caller[c].op = "stopAll"
    /\ reporter.pc = "idle"
    /\ messages' = {}
    /\ MoveCaller(c, "purge")
    /\ UNCHANGED <<allMetrics, tickersLock, tickers, worker, reporter, channels, registered>>

PurgeAll(c) ==
    /\ caller[c].pc = "purge" /\ caller[c].op = "stopAll"
    /\ PurgeAllMetrics
    /\ tickersLock' = {}
    /\ registered' = {}
    /\ caller' = [caller EXCEPT ![c] = [op |-> "none", pc |-> "exited"]]
    /\ UNCHANGED <<tickers, messages, worker, reporter, channels>>

CallerStep(c) ==
    \/ StopTicker(c) \/ RemoveMessage(c) \/ Purge(c)
    \/ AddEndpoint(c) \/ FirstMessage(c) \/ Spawn(c)
    \/ StopAllTickers(c) \/ RemoveAllMessages(c) \/ PurgeAll(c)
-----------------------------------------------------------------------------
(* The workers.                                                            *)

\* Faulty: a stopped ticker goes on.
TickForever(w) ==
    /\ worker[w] # Unborn
    /\ ~worker[w].tick
    /\ worker' = [worker EXCEPT ![w].tick = TRUE]
    /\ UNCHANGED <<allMetrics, tickersLock, tickers, messages, caller, reporter, channels, registered>>

\* The channel of a ticker holds one tick; more are dropped.
Tick(w) ==
    /\ worker[w] # Unborn
    /\ worker[w].ticking /\ ~worker[w].tick
    /\ worker' = [worker EXCEPT ![w].tick = TRUE]
    /\ UNCHANGED <<allMetrics, tickersLock, tickers, messages, caller, reporter, channels, registered>>

\* A tick starts a collection, whether or not the ticker has been stopped since.
Wake(w) ==
    /\ worker[w].pc = "wait" /\ worker[w].tick
    /\ worker' = [worker EXCEPT ![w].pc = "collect", ![w].tick = FALSE]
    /\ UNCHANGED <<allMetrics, tickersLock, tickers, messages, caller, reporter, channels, registered>>

CollectFails(w) ==
    /\ worker[w].pc = "collect"
    /\ SetEndpointMessage(worker[w].cid)
    /\ MoveWorker(w, "wait")
    /\ UNCHANGED <<allMetrics, tickersLock, tickers, caller, reporter, channels, registered>>

\* CollectMetrics succeeds; what the tracker refuses is neither stored nor defined.
Collect(w) ==
    /\ worker[w].pc = "collect"
    /\ \E ids \in Reports : \E overflow \in SUBSET ids :
        /\ AddMetricsFromCollector(worker[w].cid, ids, overflow)
        /\ worker' = [worker EXCEPT
                ![w].pc = "report", ![w].batch = ids \ overflow,
                ![w].needed = (ids \ worker[w].declared) \ overflow]
    /\ UNCHANGED <<tickersLock, tickers, messages, caller, reporter, channels, registered>>

Report(w) ==
    /\ worker[w].pc = "report"
    /\ SetEndpointMessage(worker[w].cid)
    /\ MoveWorker(w, "send")
    /\ UNCHANGED <<allMetrics, tickersLock, tickers, caller, reporter, channels, registered>>

\* Faulty: the capacity of the channel is ignored.
SendUnbounded(w) ==
    /\ worker[w].pc = "send"
    /\ metricsChan' = metricsChan + 1
    /\ IF worker[w].needed = {} THEN EndRound(w) ELSE MoveWorker(w, "details")
    /\ UNCHANGED <<allMetrics, tickersLock, tickers, messages, caller, reporter, defsChan, registered>>

\* Blocks while the channel is full, without holding any lock.
Send(w) ==
    /\ worker[w].pc = "send"
    /\ metricsChan < ChanCap
    /\ metricsChan' = metricsChan + 1
    /\ IF worker[w].needed = {} THEN EndRound(w) ELSE MoveWorker(w, "details")
    /\ UNCHANGED <<allMetrics, tickersLock, tickers, messages, caller, reporter, defsChan, registered>>

\* createMetricDefinition asks the endpoint for details.  Without them the
\* definitions are sent as they are, and again after a later collection.
GetDetails(w) ==
    /\ worker[w].pc = "details"
    /\ \/ MoveWorker(w, "sendDefs") /\ UNCHANGED messages
       \/ MoveWorker(w, "sendPartialDefs") /\ SetEndpointMessage(worker[w].cid)
    /\ UNCHANGED <<allMetrics, tickersLock, tickers, caller, reporter, channels, registered>>

SendDefs(w) ==
    /\ worker[w].pc \in {"sendDefs", "sendPartialDefs"}
    /\ defsChan < ChanCap
    /\ defsChan' = defsChan + 1
    /\ worker' = [worker EXCEPT ![w].pc = "wait", ![w].batch = {}, ![w].needed = {},
            ![w].declared = @ \cup IF worker[w].pc = "sendDefs" THEN worker[w].needed ELSE {}]
    /\ UNCHANGED <<allMetrics, tickersLock, tickers, messages, caller, reporter, metricsChan, registered>>

WorkerStep(w) ==
    \/ Wake(w) \/ CollectFails(w) \/ Collect(w) \/ Report(w) \/ Send(w)
    \/ GetDetails(w) \/ SendDefs(w)
-----------------------------------------------------------------------------
(* The status emitter and the storage manager.                             *)

\* Marshal: populate takes the status lock, asks the tracker for the pods...
ReportBegin ==
    /\ reporter.pc = "idle"
    /\ reporter' = [pc |-> "pods", pods |-> DOMAIN allMetrics, valid |-> {}]
    /\ UNCHANGED <<allMetrics, tickersLock, tickers, messages, caller, worker, channels, registered>>

\* ... then for the endpoints of each pod, with the tracker unlocked between...
ReportPod ==
    /\ reporter.pc = "pods"
    /\ \E p \in reporter.pods :
        reporter' = [reporter EXCEPT !.pods = @ \ {p}, !.valid = @ \cup EndpointsOf(p)]
    /\ UNCHANGED <<allMetrics, tickersLock, tickers, messages, caller, worker, channels, registered>>

\* Faulty: the report also looks at Tickers, under its lock.
ReportEndLockingTickers ==
    /\ reporter.pc = "pods" /\ reporter.pods = {}
    /\ tickersLock = {}
    /\ messages' = messages \cap reporter.valid
    /\ reporter' = [pc |-> "idle"]
    /\ UNCHANGED <<allMetrics, tickersLock, tickers, caller, worker, channels, registered>>

\* ... and cleanup drops the messages of endpoints that were not found.
ReportEnd ==
    /\ reporter.pc = "pods" /\ reporter.pods = {}
    /\ messages' = messages \cap reporter.valid
    /\ reporter' = [pc |-> "idle"]
    /\ UNCHANGED <<allMetrics, tickersLock, tickers, caller, worker, channels, registered>>

ReporterStep == ReportBegin \/ ReportPod \/ ReportEnd

StoreMetrics ==
    /\ metricsChan > 0
    /\ metricsChan' = metricsChan - 1
    /\ UNCHANGED <<allMetrics, tickersLock, tickers, messages, threads, defsChan, registered>>

StoreDefs ==
    /\ defsChan > 0
    /\ defsChan' = defsChan - 1
    /\ UNCHANGED <<allMetrics, tickersLock, tickers, messages, threads, metricsChan, registered>>
-----------------------------------------------------------------------------
Next ==
    \/ Invoke \/ InvokeMain
    \/ \E c \in Callers : CallerStep(c)
    \/ \E w \in Workers : Tick(w) \/ WorkerStep(w)
    \/ ReporterStep
    \/ StoreMetrics \/ StoreDefs

\* Goroutines that can run do run, and sync.Mutex hands over to its waiters.
\* Nothing is assumed of the calls that come, of endpoints or of storage.
Fairness ==
    /\ \A c \in Callers : SF_vars(CallerStep(c))
    /\ WF_vars(ReportPod \/ ReportEnd)

Spec == Init /\ [][Next]_vars /\ Fairness

\* The storage manager keeps receiving and endpoints answer.
StorageReceives ==
    /\ \A w \in Workers : SF_vars(WorkerStep(w))
    /\ WF_vars(StoreMetrics) /\ WF_vars(StoreDefs)
-----------------------------------------------------------------------------
TypeOK ==
    /\ TrackerTypeOK
    /\ tickersLock \subseteq Callers /\ Cardinality(tickersLock) <= 1
    /\ tickers \in MapOf(Collectors, Workers)
    /\ messages \subseteq Endpoints
    /\ \A c \in Callers : caller[c].op \in {"none", "stopAll"} \/ caller[c].cid \in Collectors
    /\ \A w \in Workers : worker[w] = Unborn \/ worker[w].cid \in Collectors
    /\ metricsChan \in 0..ChanCap /\ defsChan \in 0..ChanCap
    /\ registered \subseteq Collectors

\* A ticker that runs is in Tickers: it can be stopped, and no endpoint is
\* collected by two of them.
RunningTickersAreKnown ==
    \A w \in Workers : worker[w] # Unborn /\ worker[w].ticking
        => worker[w].cid \in DOMAIN tickers /\ tickers[worker[w].cid] = w

\* Until shutdown: an endpoint with a ticker is counted by the tracker and has
\* a message in the status report.  Marshal may well see the tracker between
\* the purge and the addition of a restart, but it never loses the message of
\* an endpoint that is being collected.
ActiveIsReported ==
    caller["main"] = NoCall =>
        \A cid \in DOMAIN tickers : IsTracked(cid) /\ cid.endpoint \in messages

\* Calls of the manager return even when storage has stopped receiving and its
\* channels are full: a worker that waits for storage holds no lock, and the
\* locks of Tickers, status report and tracker are never waited for in a cycle.
CallsReturn == \A c \in Callers : caller[c].pc = "lock" ~> caller[c].op = "none"

\* Provided that storage keeps receiving: once its ticker is stopped a worker
\* finishes what it has begun, and a tick that was due, and then never collects
\* again.
StoppedWorkerQuiesces ==
    StorageReceives =>
        \A w \in Workers :
            worker[w] # Unborn /\ ~worker[w].ticking
                ~> [](worker[w].pc = "wait" /\ ~worker[w].tick)

\* "StopCollecting will stop metric collection for the collector": when nothing
\* is going on any more, a collector that was stopped, and not started or
\* reported since, is not in the tracker, where it would be listed in every
\* status report and use up the limit of its pod.
StoppedIsForgotten ==
    (/\ \A c \in Callers : caller[c].op = "none"
     /\ \A w \in Workers : worker[w] = Unborn \/ (worker[w].pc = "wait" /\ ~worker[w].tick))
        => \A cid \in Collectors \ registered : ~IsTracked(cid)
=============================================================================
