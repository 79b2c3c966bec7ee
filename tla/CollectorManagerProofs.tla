---------------------- MODULE CollectorManagerProofs ----------------------
(***************************************************************************)
(* Proofs about the collector manager, for any collectors, workers,        *)
(* collections and channels, and whether or not main shuts the agent down. *)
(***************************************************************************)
EXTENDS CollectorManager, MetricsTrackerProofs

\* The states of a call: which operation, for which collector, how far.
CallStates ==
    [op : {"none"}, pc : {"idle", "shutdown", "exited"}]
    \cup [op : {"stopAll"}, pc : {"lock", "removeMessage", "purge"}]
    \cup [op : {"start", "startDisabled", "stop"}, cid : Collectors,
          pc : {"lock", "removeMessage", "purge", "add", "message"}]
    \cup [op : {"not"}, cid : Collectors, pc : {"add", "message"}]
    \cup [op : {"start"}, cid : Collectors, pc : {"spawn"}]

\* The states of a worker that has been spawned.
WorkerStates ==
    [pc : {"wait", "collect", "report", "send", "details", "sendDefs", "sendPartialDefs"},
     cid : Collectors, ticking : BOOLEAN, tick : BOOLEAN, declared : SUBSET MetricIds,
     batch : SUBSET MetricIds, needed : SUBSET MetricIds]

ReporterStates == [pc : {"idle"}] \cup [pc : {"pods"}, pods : SUBSET Pods, valid : SUBSET Endpoints]

CallersTyped == caller \in [Callers -> CallStates]
WorkersTyped == worker \in [Workers -> {Unborn} \cup WorkerStates]
ChannelsTyped == metricsChan \in 0..ChanCap /\ defsChan \in 0..ChanCap

Types ==
    /\ TrackerTypeOK
    /\ tickers \in MapOf(Collectors, Workers)
    /\ messages \subseteq Endpoints
    /\ CallersTyped /\ WorkersTyped
    /\ reporter \in ReporterStates
    /\ ChannelsTyped
    /\ registered \subseteq Collectors

Holds(c) == caller[c].pc \in {"removeMessage", "purge"}

\* TickersLock is held exactly by the call between its lock and its unlock.
Locked ==
    /\ tickersLock \subseteq Callers
    /\ \A c \in Callers : c \in tickersLock <=> Holds(c)
    /\ \A c, d \in tickersLock : c = d

\* Main only stops collectors, and only main stops all of them.
MainStops ==
    /\ caller["consumer"].op # "stopAll"
    /\ caller["main"].op \in {"none", "stop", "stopAll"}
    /\ caller["main"].pc \notin {"add", "message", "spawn"}

\* A call of the consumer that has stopped a ticker finds none until it makes
\* its own.
RestartHasNoTicker ==
    caller["consumer"].op \in {"start", "startDisabled", "stop"} /\ caller["consumer"].pc # "lock"
        => caller["consumer"].cid \notin DOMAIN tickers

\* A ticker of Tickers belongs to a worker of its collector.
TickersHaveWorkers ==
    \A cid \in DOMAIN tickers : worker[tickers[cid]] # Unborn /\ worker[tickers[cid]].cid = cid

\* What is known of the tickers, taken together.
TickersKnown == RestartHasNoTicker /\ TickersHaveWorkers /\ RunningTickersAreKnown

\* What the status report has of an endpoint: the tracker and the messages know
\* it, and Marshal, if it is running, has found it or will.
Shown(cid) ==
    /\ IsTracked(cid)
    /\ cid.endpoint \in messages
    /\ reporter.pc = "pods" => cid.pod \in reporter.pods \/ cid.endpoint \in reporter.valid

\* Until main begins to stop: the endpoints with a ticker are shown, that of
\* the call about to make a ticker as well, and before its message is set it
\* is tracked.
Reported ==
    caller["main"] = NoCall =>
        /\ \A cid \in DOMAIN tickers : Shown(cid)
        /\ caller["consumer"].pc = "spawn" => Shown(caller["consumer"].cid)
        /\ caller["consumer"].pc = "message" => IsTracked(caller["consumer"].cid)

\* The inductive invariant.
IInv == Types /\ Locked /\ MainStops /\ TickersKnown /\ Reported
-----------------------------------------------------------------------------
\* A map with one key taken out is a map.
LEMMA WithoutIsMap ==
    ASSUME NEW K, NEW V, NEW f \in MapOf(K, V), NEW k
    PROVE  Without(f, k) \in MapOf(K, V)
<1>1. DOMAIN f \ {k} \in SUBSET K /\ \A x \in DOMAIN f : f[x] \in V
  BY MapOfFacts
<1>2. Without(f, k) \in [DOMAIN f \ {k} -> V]
  BY <1>1 DEF Without
<1> QED BY <1>1, <1>2, MapOfIntro

\* The tracker sees operations of its own only, with arguments of their types.
LEMMA TrackerSteps ==
    ASSUME CallersTyped, WorkersTyped, [Next]_vars
    PROVE  [TrackerNext]_allMetrics
<1> SUFFICES ASSUME Next PROVE TrackerNext \/ UNCHANGED allMetrics
  BY DEF vars
<1>0. Collectors \subseteq CollectorID /\ Reports \subseteq FiniteSubsets(MetricIds)
  BY ManagerConstants
<1>1. ASSUME NEW c \in Callers, Purge(c)
      PROVE  TrackerNext
  <2>1. caller[c].cid \in CollectorID
    BY <1>0, <1>1 DEF Purge, CallersTyped, CallStates
  <2> QED BY <1>1, <2>1 DEF Purge, TrackerNext
<1>2. ASSUME NEW c \in Callers, AddEndpoint(c)
      PROVE  TrackerNext
  <2>1. caller[c].cid \in CollectorID
    BY <1>0, <1>2 DEF AddEndpoint, CallersTyped, CallStates
  <2> QED BY NothingIsFinite, <1>2, <2>1 DEF AddEndpoint, TrackerNext
<1>3. ASSUME NEW c \in Callers, PurgeAll(c)
      PROVE  TrackerNext
  BY <1>3 DEF PurgeAll, TrackerNext
<1>4. ASSUME NEW w \in Workers, Collect(w)
      PROVE  TrackerNext
  <2>1. worker[w].cid \in CollectorID
    BY <1>0, <1>4 DEF Collect, WorkersTyped, WorkerStates, Unborn
  <2> QED BY <1>0, <1>4, <2>1 DEF Collect, TrackerNext
<1>5. ASSUME NEW c \in Callers, CallerStep(c)
      PROVE  TrackerNext \/ UNCHANGED allMetrics
  BY <1>1, <1>2, <1>3, <1>5 DEF CallerStep, StopTicker, RemoveMessage, FirstMessage, Spawn,
     StopAllTickers, RemoveAllMessages
<1>6. ASSUME NEW w \in Workers, Tick(w) \/ WorkerStep(w)
      PROVE  TrackerNext \/ UNCHANGED allMetrics
  BY <1>4, <1>6 DEF Tick, WorkerStep, Wake, CollectFails, Report, Send, GetDetails, SendDefs
<1> QED BY <1>5, <1>6 DEF Next, Invoke, InvokeMain, ReporterStep, ReportBegin, ReportPod, ReportEnd,
           StoreMetrics, StoreDefs

\* Calls stay within their states.
LEMMA CallersStayTyped ==
    ASSUME CallersTyped, [Next]_vars
    PROVE  CallersTyped'
<1> USE DEF CallersTyped
<1>1. ASSUME NEW c \in Callers, NEW s \in CallStates, caller' = [caller EXCEPT ![c] = s]
      PROVE  CallersTyped'
  BY <1>1
<1>2. CASE Invoke
  <2>1. PICK op \in {"start", "startDisabled", "stop", "not"}, cid \in Collectors :
            caller' = [caller EXCEPT !["consumer"] =
                [op |-> op, cid |-> cid, pc |-> IF op = "not" THEN "add" ELSE "lock"]]
    BY <1>2 DEF Invoke
  <2> QED BY <1>1, <2>1 DEF Callers, CallStates
<1>3. CASE InvokeMain
  <2>1. CASE \E cid \in Collectors :
            caller' = [caller EXCEPT !["main"] = [op |-> "stop", cid |-> cid, pc |-> "lock"]]
    BY <1>1, <2>1 DEF Callers, CallStates
  <2>2. CASE caller' = [caller EXCEPT !["main"] = [op |-> "stopAll", pc |-> "lock"]]
    BY <1>1, <2>2 DEF Callers, CallStates
  <2> QED BY <1>3, <2>1, <2>2 DEF InvokeMain
<1>4. ASSUME NEW c \in Callers, CallerStep(c)
      PROVE  CallersTyped'
  <2>1. ASSUME NEW pc \in {"removeMessage", "purge"}, MoveCaller(c, pc), caller[c].op \notin {"none", "not"}
        PROVE  CallersTyped'
    BY <1>1, <2>1 DEF MoveCaller, CallStates
  <2>2. ASSUME NEW pc \in {"add", "message", "spawn"}, MoveCaller(c, pc),
               caller[c].op \in {"start", "startDisabled", "stop", "not"},
               pc = "spawn" => caller[c].op = "start"
        PROVE  CallersTyped'
    BY <1>1, <2>2 DEF MoveCaller, CallStates
  <2>3. ASSUME EndCall(c)
        PROVE  CallersTyped'
    BY <1>1, <2>3 DEF EndCall, NoCall, CallStates
  <2>4. CASE StopTicker(c)
    BY <2>1, <2>4 DEF StopTicker, CallStates
  <2>5. CASE RemoveMessage(c)
    BY <2>1, <2>5 DEF RemoveMessage, CallStates
  <2>6. CASE Purge(c)
    BY <2>2, <2>3, <2>6 DEF Purge, CallStates
  <2>7. CASE AddEndpoint(c)
    BY <2>2, <2>7 DEF AddEndpoint, CallStates
  <2>8. CASE FirstMessage(c)
    BY <2>2, <2>3, <2>8 DEF FirstMessage
  <2>9. CASE Spawn(c)
    BY <2>3, <2>9 DEF Spawn
  <2>10. CASE StopAllTickers(c)
    BY <2>1, <2>10 DEF StopAllTickers
  <2>11. CASE RemoveAllMessages(c)
    BY <2>1, <2>11 DEF RemoveAllMessages
  <2>12. CASE PurgeAll(c)
    BY <1>1, <2>12 DEF PurgeAll, CallStates
  <2> QED BY <1>4, <2>4, <2>5, <2>6, <2>7, <2>8, <2>9, <2>10, <2>11, <2>12 DEF CallerStep
<1>5. CASE UNCHANGED caller
  BY <1>5
<1> QED BY <1>2, <1>3, <1>4, <1>5 DEF Next, vars, threads, Tick, WorkerStep, Wake, CollectFails, Collect,
           Report, Send, GetDetails, SendDefs, ReporterStep, ReportBegin, ReportPod, ReportEnd,
           StoreMetrics, StoreDefs

\* So do workers.
LEMMA WorkersStayTyped ==
    ASSUME CallersTyped, WorkersTyped, tickers \in MapOf(Collectors, Workers), [Next]_vars
    PROVE  WorkersTyped'
<1> USE DEF WorkersTyped
<1>0. Reports \subseteq FiniteSubsets(MetricIds)
  BY ManagerConstants
<1>1. ASSUME NEW w \in Workers, NEW s \in WorkerStates, worker' = [worker EXCEPT ![w] = s]
      PROVE  WorkersTyped'
  BY <1>1
<1>2. ASSUME NEW S, worker' = [w \in Workers |->
                IF w \in S THEN [worker[w] EXCEPT !.ticking = FALSE] ELSE worker[w]]
      PROVE  WorkersTyped'
  <2>1. ASSUME NEW w \in Workers
        PROVE  [worker[w] EXCEPT !.ticking = FALSE] \in {Unborn} \cup WorkerStates
    BY DEF Unborn, WorkerStates
  <2> QED BY <1>2, <2>1
<1>3. ASSUME NEW c \in Callers, CallerStep(c)
      PROVE  WorkersTyped'
  <2>1. CASE StopTicker(c)
    <3> DEFINE S == {w \in Workers : caller[c].cid \in DOMAIN tickers /\ w = tickers[caller[c].cid]}
    <3>1. worker' = [w \in Workers |->
                IF w \in S THEN [worker[w] EXCEPT !.ticking = FALSE] ELSE worker[w]]
      BY <2>1 DEF StopTicker
    <3> HIDE DEF S
    <3> QED BY <1>2, <3>1
  <2>2. CASE StopAllTickers(c)
    <3> DEFINE S == {w \in Workers : \E d \in DOMAIN tickers : tickers[d] = w}
    <3>1. worker' = [w \in Workers |->
                IF w \in S THEN [worker[w] EXCEPT !.ticking = FALSE] ELSE worker[w]]
      BY <2>2 DEF StopAllTickers
    <3> HIDE DEF S
    <3> QED BY <1>2, <3>1
  <2>3. CASE Spawn(c)
    <3>1. caller[c].cid \in Collectors
      BY <2>3 DEF Spawn, CallersTyped, CallStates
    <3>2. Newborn(caller[c].cid) \in WorkerStates
      BY <3>1 DEF Newborn, WorkerStates
    <3> QED BY <1>1, <2>3, <3>2 DEF Spawn
  <2> QED BY <1>3, <2>1, <2>2, <2>3 DEF CallerStep, RemoveMessage, Purge, AddEndpoint, FirstMessage,
             RemoveAllMessages, PurgeAll
<1>4. ASSUME NEW w \in Workers, Tick(w) \/ WorkerStep(w)
      PROVE  WorkersTyped'
  <2>1. ASSUME worker[w] # Unborn
        PROVE  worker[w] \in WorkerStates
    BY <2>1
  <2>2. worker[w].pc # "unborn" => worker[w] \in WorkerStates
    BY DEF Unborn
  <2>3. CASE Tick(w)
    BY <1>1, <2>1, <2>3 DEF Tick, WorkerStates
  <2>4. CASE Wake(w)
    BY <1>1, <2>2, <2>4 DEF Wake, WorkerStates
  <2>5. CASE CollectFails(w)
    BY <1>1, <2>2, <2>5 DEF CollectFails, MoveWorker, WorkerStates
  <2>6. CASE Collect(w)
    BY <1>0, <1>1, <2>2, <2>6 DEF Collect, WorkerStates
  <2>7. CASE Report(w)
    BY <1>1, <2>2, <2>7 DEF Report, MoveWorker, WorkerStates
  <2>8. CASE Send(w)
    BY <1>1, <2>2, <2>8 DEF Send, EndRound, MoveWorker, WorkerStates
  <2>9. CASE GetDetails(w)
    BY <1>1, <2>2, <2>9 DEF GetDetails, MoveWorker, WorkerStates
  <2>10. CASE SendDefs(w)
    BY <1>1, <2>2, <2>10 DEF SendDefs, WorkerStates
  <2> QED BY <1>4, <2>3, <2>4, <2>5, <2>6, <2>7, <2>8, <2>9, <2>10 DEF WorkerStep
<1>5. CASE UNCHANGED worker
  BY <1>5
<1> QED BY <1>3, <1>4, <1>5 DEF Next, vars, threads, Invoke, InvokeMain, ReporterStep, ReportBegin,
           ReportPod, ReportEnd, StoreMetrics, StoreDefs

\* The rest of the state keeps its types.
LEMMA TypesStep ==
    ASSUME Types, [Next]_vars
    PROVE  Types'
<1>1. TrackerTypeOK' /\ CallersTyped' /\ WorkersTyped'
  BY TrackerSteps, TypeStep, CallersStayTyped, WorkersStayTyped DEF Types
<1>2. (tickers \in MapOf(Collectors, Workers))'
  <2>0. ASSUME tickers' \in [{} -> Workers]
        PROVE  tickers' \in MapOf(Collectors, Workers)
    BY <2>0, MapOfIntro
  <2>1. ASSUME NEW c \in Callers, StopTicker(c)
        PROVE  tickers' \in MapOf(Collectors, Workers)
    BY <2>1, WithoutIsMap DEF StopTicker, Types
  <2>2. ASSUME NEW c \in Callers, StopAllTickers(c)
        PROVE  tickers' \in MapOf(Collectors, Workers)
    BY <2>0, <2>2 DEF StopAllTickers
  <2>3. ASSUME NEW c \in Callers, Spawn(c)
        PROVE  tickers' \in MapOf(Collectors, Workers)
    <3>1. caller[c].cid \in Collectors
      BY <2>3 DEF Spawn, Types, CallersTyped, CallStates
    <3>2. DOMAIN tickers \subseteq Collectors /\ \A d \in DOMAIN tickers : tickers[d] \in Workers
      BY MapOfFacts DEF Types
    <3>3. PICK w \in Workers : tickers' = [d \in DOMAIN tickers \cup {caller[c].cid} |->
                                            IF d = caller[c].cid THEN w ELSE tickers[d]]
      BY <2>3 DEF Spawn
    <3>4. tickers' \in [DOMAIN tickers \cup {caller[c].cid} -> Workers]
      BY <3>2, <3>3
    <3> QED BY <3>1, <3>2, <3>4, MapOfIntro
  <2>4. CASE UNCHANGED tickers
    BY <2>4 DEF Types
  <2> QED BY <2>1, <2>2, <2>3, <2>4 DEF Next, vars, threads, CallerStep, RemoveMessage, Purge, AddEndpoint,
             FirstMessage, RemoveAllMessages, PurgeAll, Invoke, InvokeMain, Tick, WorkerStep, Wake,
             CollectFails, Collect, Report, Send, GetDetails, SendDefs, ReporterStep, ReportBegin,
             ReportPod, ReportEnd, StoreMetrics, StoreDefs
<1>3. (messages \subseteq Endpoints /\ registered \subseteq Collectors)'
  <2>0. Collectors \subseteq CollectorID
    BY ManagerConstants
  <2>1. ASSUME NEW c \in Callers, caller[c].pc = "message"
        PROVE  caller[c].cid.endpoint \in Endpoints
    BY <2>0, <2>1 DEF Types, CallersTyped, CallStates, CollectorID
  <2>2. ASSUME NEW w \in Workers, worker[w].pc # "unborn"
        PROVE  worker[w].cid.endpoint \in Endpoints
    BY <2>0, <2>2 DEF Types, WorkersTyped, WorkerStates, CollectorID, Unborn
  <2>3. ASSUME NEW c \in Callers, CallerStep(c)
        PROVE  (messages \subseteq Endpoints /\ registered \subseteq Collectors)'
    BY <2>1, <2>3 DEF Types, CallerStep, StopTicker, RemoveMessage, Purge, AddEndpoint, FirstMessage, Spawn,
       StopAllTickers, RemoveAllMessages, PurgeAll, SetEndpointMessage, RemoveEndpointMessage
  <2>4. ASSUME NEW w \in Workers, Tick(w) \/ WorkerStep(w)
        PROVE  (messages \subseteq Endpoints /\ registered \subseteq Collectors)'
    BY <2>2, <2>4 DEF Types, Tick, WorkerStep, Wake, CollectFails, Collect, Report, Send, GetDetails,
       SendDefs, SetEndpointMessage
  <2> QED BY <2>3, <2>4 DEF Types, Next, vars, threads, Invoke, InvokeMain, ReporterStep, ReportBegin,
             ReportPod, ReportEnd, StoreMetrics, StoreDefs
<1>4. (reporter \in ReporterStates)'
  <2>1. CASE ReportBegin
    <3>1. DOMAIN allMetrics \subseteq Pods
      BY MapOfFacts DEF Types, TrackerTypeOK
    <3> QED BY <2>1, <3>1 DEF ReportBegin, ReporterStates
  <2>2. CASE ReportPod
    BY <2>2 DEF ReportPod, ReporterStates, Types, EndpointsOf
  <2>3. CASE ReportEnd
    BY <2>3 DEF ReportEnd, ReporterStates
  <2>4. CASE UNCHANGED reporter
    BY <2>4 DEF Types
  <2> QED BY <2>1, <2>2, <2>3, <2>4 DEF Next, vars, threads, CallerStep, StopTicker, RemoveMessage, Purge,
             AddEndpoint, FirstMessage, Spawn, StopAllTickers, RemoveAllMessages, PurgeAll, Invoke,
             InvokeMain, Tick, WorkerStep, Wake, CollectFails, Collect, Report, Send, GetDetails,
             SendDefs, ReporterStep, StoreMetrics, StoreDefs
<1>5. ChannelsTyped'
  <2> USE ManagerConstants DEF ChannelsTyped
  <2>1. ASSUME NEW w \in Workers, Tick(w) \/ WorkerStep(w)
        PROVE  ChannelsTyped'
    <3>1. CASE Send(w)
      <4>1. metricsChan < ChanCap /\ metricsChan' = metricsChan + 1 /\ defsChan' = defsChan
        BY <3>1 DEF Send
      <4> QED BY <4>1 DEF Types
    <3>2. CASE SendDefs(w)
      <4>1. defsChan < ChanCap /\ defsChan' = defsChan + 1 /\ metricsChan' = metricsChan
        BY <3>2 DEF SendDefs
      <4> QED BY <4>1 DEF Types
    <3>3. CASE UNCHANGED channels
      BY <3>3 DEF Types, channels
    <3> QED BY <2>1, <3>1, <3>2, <3>3 DEF Tick, WorkerStep, Wake, CollectFails, Collect, Report, GetDetails
  <2>2. CASE StoreMetrics \/ StoreDefs
    BY <2>2 DEF Types, StoreMetrics, StoreDefs
  <2> QED BY <2>1, <2>2 DEF Types, Next, vars, threads, channels, CallerStep, StopTicker, RemoveMessage,
             Purge, AddEndpoint, FirstMessage, Spawn, StopAllTickers, RemoveAllMessages, PurgeAll,
             Invoke, InvokeMain, ReporterStep, ReportBegin, ReportPod, ReportEnd
<1> QED BY <1>1, <1>2, <1>3, <1>4, <1>5 DEF Types

-----------------------------------------------------------------------------
\* The lock of Tickers excludes: who has it is between its lock and its unlock.
LEMMA LockedStep ==
    ASSUME CallersTyped, Locked, [Next]_vars
    PROVE  Locked'
<1> USE DEF Locked, Holds, CallersTyped
<1>1. CASE Invoke
  BY <1>1 DEF Invoke, Callers
<1>2. CASE InvokeMain
  BY <1>2 DEF InvokeMain, Callers
<1>3. ASSUME NEW c \in Callers, CallerStep(c)
      PROVE  Locked'
  <2>1. ASSUME tickersLock = {}, tickersLock' = {c}, MoveCaller(c, "removeMessage")
        PROVE  Locked'
    BY <2>1 DEF MoveCaller, CallStates
  <2>2. ASSUME Holds(c), Holds(c)', \A d \in Callers \ {c} : caller'[d] = caller[d],
               tickersLock' = tickersLock
        PROVE  Locked'
    BY <2>2
  <2>3. ASSUME Holds(c), ~Holds(c)', \A d \in Callers \ {c} : caller'[d] = caller[d],
               tickersLock' = {}
        PROVE  Locked'
    BY <2>3
  <2>4. ASSUME ~Holds(c), ~Holds(c)', \A d \in Callers \ {c} : caller'[d] = caller[d],
               tickersLock' = tickersLock
        PROVE  Locked'
    BY <2>4
  <2>5. CASE StopTicker(c) \/ StopAllTickers(c)
    BY <2>1, <2>5 DEF StopTicker, StopAllTickers
  <2>6. CASE RemoveMessage(c) \/ RemoveAllMessages(c)
    BY <2>2, <2>6 DEF RemoveMessage, RemoveAllMessages, MoveCaller, CallStates
  <2>7. CASE Purge(c)
    <3>1. caller'[c].pc \in {"add", "idle", "shutdown"} /\ \A d \in Callers \ {c} : caller'[d] = caller[d]
      BY <2>7 DEF Purge, MoveCaller, EndCall, NoCall, CallStates
    <3> QED BY <2>3, <2>7, <3>1 DEF Purge
  <2>8. CASE PurgeAll(c)
    BY <2>3, <2>8 DEF PurgeAll
  <2>9. CASE AddEndpoint(c)
    BY <2>4, <2>9 DEF AddEndpoint, MoveCaller, CallStates
  <2>10. CASE FirstMessage(c)
    <3>1. caller'[c].pc \in {"spawn", "idle", "shutdown"} /\ \A d \in Callers \ {c} : caller'[d] = caller[d]
      BY <2>10 DEF FirstMessage, MoveCaller, EndCall, NoCall, CallStates
    <3> QED BY <2>4, <2>10, <3>1 DEF FirstMessage
  <2>11. CASE Spawn(c)
    <3>1. caller'[c].pc \in {"idle", "shutdown"} /\ \A d \in Callers \ {c} : caller'[d] = caller[d]
      BY <2>11 DEF Spawn, EndCall, NoCall
    <3> QED BY <2>4, <2>11, <3>1 DEF Spawn
  <2> QED BY <1>3, <2>5, <2>6, <2>7, <2>8, <2>9, <2>10, <2>11 DEF CallerStep
<1>4. CASE UNCHANGED <<caller, tickersLock>>
  BY <1>4
<1> QED BY <1>1, <1>2, <1>3, <1>4 DEF Next, vars, threads, Tick, WorkerStep, Wake, CollectFails, Collect,
           Report, Send, GetDetails, SendDefs, ReporterStep, ReportBegin, ReportPod, ReportEnd,
           StoreMetrics, StoreDefs

\* Main begins nothing but stops, and is never again as before its first call.
LEMMA MainStopsStep ==
    ASSUME CallersTyped, MainStops, [Next]_vars
    PROVE  MainStops' /\ (caller'["main"] = NoCall => caller["main"] = NoCall)
<1> USE DEF CallersTyped, MainStops, NoCall
<1>1. CASE Invoke
  BY <1>1 DEF Invoke, Callers
<1>2. CASE InvokeMain
  BY <1>2 DEF InvokeMain, Callers
<1>3. CASE CallerStep("consumer")
  <2>1. caller'["main"] = caller["main"] /\ caller'["consumer"].op \in {caller["consumer"].op, "none"}
    BY <1>3 DEF Callers, CallStates, CallerStep, StopTicker, RemoveMessage, Purge, AddEndpoint, FirstMessage,
       Spawn, StopAllTickers, RemoveAllMessages, PurgeAll, MoveCaller, EndCall
  <2> QED BY <2>1
<1>4. CASE CallerStep("main")
  <2>1. ASSUME NEW pc \in {"removeMessage", "purge"}, MoveCaller("main", pc), caller["main"].op # "none"
        PROVE  MainStops' /\ caller'["main"] # NoCall
    BY <2>1 DEF MoveCaller, CallStates, Callers
  <2>2. ASSUME NEW pc \in {"shutdown", "exited"}, caller' = [caller EXCEPT !["main"] = [op |-> "none", pc |-> pc]]
        PROVE  MainStops' /\ caller'["main"] # NoCall
    BY <2>2 DEF Callers
  <2>3. CASE StopTicker("main") \/ RemoveMessage("main") \/ StopAllTickers("main") \/ RemoveAllMessages("main")
    BY <2>1, <2>3 DEF StopTicker, RemoveMessage, StopAllTickers, RemoveAllMessages, CallStates, Callers
  <2>4. CASE Purge("main")
    <3>1. caller["main"].op = "stop"
      BY <2>4 DEF Purge, CallStates, Callers
    <3> QED BY <2>2, <2>4, <3>1 DEF Purge, EndCall
  <2>5. CASE PurgeAll("main")
    BY <2>2, <2>5 DEF PurgeAll
  <2> QED BY <1>4, <2>3, <2>4, <2>5 DEF CallerStep, AddEndpoint, FirstMessage, Spawn
<1>5. CASE UNCHANGED caller
  BY <1>5
<1> QED BY <1>1, <1>2, <1>3, <1>4, <1>5 DEF Next, vars, threads, Callers, Tick, WorkerStep, Wake,
           CollectFails, Collect, Report, Send, GetDetails, SendDefs, ReporterStep, ReportBegin,
           ReportPod, ReportEnd, StoreMetrics, StoreDefs

-----------------------------------------------------------------------------
\* While a worker goes round, its ticker and the calls stay as they are.
LEMMA WorkerKeepsTickers ==
    ASSUME Types, TickersKnown, NEW w \in Workers, Tick(w) \/ WorkerStep(w)
    PROVE  TickersKnown'
<1> USE DEF Types, WorkersTyped
<1>1. UNCHANGED <<tickers, caller>>
  BY DEF Tick, WorkerStep, Wake, CollectFails, Collect, Report, Send, GetDetails, SendDefs
<1>2. worker[w] # Unborn
  <2>1. CASE Tick(w)
    BY <2>1 DEF Tick
  <2>2. CASE WorkerStep(w)
    <3>1. worker[w].pc # "unborn"
      BY <2>2 DEF WorkerStep, Wake, CollectFails, Collect, Report, Send, GetDetails, SendDefs
    <3> QED BY <3>1 DEF Unborn
  <2> QED BY <2>1, <2>2
<1>3. worker[w] \in WorkerStates
  BY <1>2
<1>4. /\ \A v \in Workers \ {w} : worker'[v] = worker[v]
      /\ worker'[w].pc # "unborn" /\ worker'[w].cid = worker[w].cid
      /\ worker'[w].ticking = worker[w].ticking
  <2>1. CASE Tick(w)
    BY <1>3, <2>1 DEF Tick, WorkerStates
  <2>2. CASE Wake(w)
    BY <1>3, <2>2 DEF Wake, WorkerStates
  <2>3. CASE CollectFails(w) \/ Report(w)
    BY <1>3, <2>3 DEF CollectFails, Report, MoveWorker, WorkerStates
  <2>4. CASE Collect(w)
    BY <1>3, <2>4 DEF Collect, WorkerStates
  <2>5. CASE Send(w)
    BY <1>3, <2>5 DEF Send, EndRound, MoveWorker, WorkerStates
  <2>6. CASE GetDetails(w)
    BY <1>3, <2>6 DEF GetDetails, MoveWorker, WorkerStates
  <2>7. CASE SendDefs(w)
    BY <1>3, <2>7 DEF SendDefs, WorkerStates
  <2> QED BY <2>1, <2>2, <2>3, <2>4, <2>5, <2>6, <2>7 DEF WorkerStep
<1>5. \A v \in Workers : worker'[v] = Unborn <=> worker[v] = Unborn
  BY <1>2, <1>4 DEF Unborn
<1>6. \A cid \in DOMAIN tickers : tickers[cid] \in Workers
  BY MapOfFacts
<1>7. RestartHasNoTicker'
  BY <1>1 DEF TickersKnown, RestartHasNoTicker
<1>8. TickersHaveWorkers'
  BY <1>1, <1>4, <1>5, <1>6 DEF TickersKnown, TickersHaveWorkers
<1>9. RunningTickersAreKnown'
  BY <1>1, <1>4, <1>5 DEF TickersKnown, RunningTickersAreKnown
<1> QED BY <1>7, <1>8, <1>9 DEF TickersKnown

\* A worker whose ticker is stopped is a worker.
LEMMA StoppedWorker ==
    ASSUME NEW r \in WorkerStates
    PROVE  /\ [r EXCEPT !.ticking = FALSE] \in WorkerStates
           /\ ~[r EXCEPT !.ticking = FALSE].ticking
BY DEF WorkerStates

\* Stopping tickers removes exactly them from Tickers.
LEMMA StopsAreKnown ==
    ASSUME Types, TickersKnown, NEW S \in SUBSET DOMAIN tickers,
           tickers' = [d \in DOMAIN tickers \ S |-> tickers[d]],
           worker' = [w \in Workers |-> IF \E d \in S : tickers[d] = w
                                         THEN [worker[w] EXCEPT !.ticking = FALSE] ELSE worker[w]]
    PROVE  TickersHaveWorkers' /\ RunningTickersAreKnown'
<1> USE DEF Types, WorkersTyped
<1> DEFINE stopped(w) == [worker[w] EXCEPT !.ticking = FALSE]
<1>0. \A w \in Workers : worker'[w] = IF \E d \in S : tickers[d] = w THEN stopped(w) ELSE worker[w]
  OBVIOUS
<1> HIDE DEF stopped
<1>1. \A cid \in DOMAIN tickers : tickers[cid] \in Workers
  BY MapOfFacts
<1>2. \A d \in DOMAIN tickers : worker[tickers[d]] \in WorkerStates /\ worker[tickers[d]].cid = d
  BY <1>1 DEF TickersKnown, TickersHaveWorkers
<1>3. ASSUME NEW d \in S
      PROVE  /\ worker'[tickers[d]] \in WorkerStates
             /\ ~worker'[tickers[d]].ticking
  <2>1. worker'[tickers[d]] = stopped(tickers[d])
    BY <1>0, <1>1
  <2>2. stopped(tickers[d]) \in WorkerStates /\ ~stopped(tickers[d]).ticking
    BY <1>2, StoppedWorker DEF stopped
  <2> QED BY <2>1, <2>2
<1>4. \A w \in Workers : (\A d \in S : tickers[d] # w) => worker'[w] = worker[w]
  BY <1>0
<1>5. TickersHaveWorkers'
  <2>1. ASSUME NEW d \in DOMAIN tickers \ S
        PROVE  worker'[tickers[d]] = worker[tickers[d]]
    <3>1. \A e \in S : tickers[e] # tickers[d]
      BY <1>2
    <3> QED BY <1>1, <1>4, <3>1
  <2>2. DOMAIN tickers' = DOMAIN tickers \ S /\ \A d \in DOMAIN tickers \ S : tickers'[d] = tickers[d]
    OBVIOUS
  <2>3. ASSUME NEW d \in DOMAIN tickers'
        PROVE  worker'[tickers'[d]] # Unborn /\ worker'[tickers'[d]].cid = d
    <3>1. worker'[tickers'[d]] = worker[tickers[d]] /\ d \in DOMAIN tickers
      BY <2>1, <2>2
    <3> QED BY <3>1 DEF TickersKnown, TickersHaveWorkers
  <2> QED BY <2>3 DEF TickersHaveWorkers
<1>6. RunningTickersAreKnown'
  <2> SUFFICES ASSUME NEW w \in Workers, worker'[w] # Unborn, worker'[w].ticking
               PROVE  worker'[w].cid \in DOMAIN tickers' /\ tickers'[worker'[w].cid] = w
    BY DEF RunningTickersAreKnown
  <2>1. \A d \in S : tickers[d] # w
    BY <1>3
  <2>2. worker'[w] = worker[w]
    BY <1>4, <2>1
  <2>3. worker[w].cid \in DOMAIN tickers /\ tickers[worker[w].cid] = w
    BY <2>2 DEF TickersKnown, RunningTickersAreKnown
  <2> QED BY <2>1, <2>2, <2>3
<1> QED BY <1>5, <1>6

\* Every step keeps the tickers known.
LEMMA TickersStep ==
    ASSUME Types, MainStops, TickersKnown, [Next]_vars
    PROVE  TickersKnown'
<1> USE DEF Types, CallersTyped, WorkersTyped
<1>1. ASSUME UNCHANGED worker, UNCHANGED tickers
      PROVE  TickersHaveWorkers' /\ RunningTickersAreKnown'
  BY <1>1 DEF TickersKnown, TickersHaveWorkers, RunningTickersAreKnown
<1>2. CASE Invoke
  <2>1. RestartHasNoTicker'
    BY <1>2 DEF Invoke, RestartHasNoTicker, Callers
  <2> QED BY <1>1, <1>2, <2>1 DEF Invoke, TickersKnown
<1>3. CASE InvokeMain
  <2>1. RestartHasNoTicker'
    BY <1>3 DEF InvokeMain, TickersKnown, RestartHasNoTicker, Callers
  <2> QED BY <1>1, <1>3, <2>1 DEF InvokeMain, TickersKnown
<1>4. ASSUME NEW c \in Callers, StopTicker(c)
      PROVE  TickersKnown'
  <2> DEFINE S == DOMAIN tickers \cap {caller[c].cid}
  <2>1. tickers' = [d \in DOMAIN tickers \ S |-> tickers[d]]
    BY <1>4 DEF StopTicker, Without
  <2>2. worker' = [w \in Workers |-> IF \E d \in S : tickers[d] = w
                                     THEN [worker[w] EXCEPT !.ticking = FALSE] ELSE worker[w]]
    <3>1. \A w : (caller[c].cid \in DOMAIN tickers /\ w = tickers[caller[c].cid])
                    <=> \E d \in S : tickers[d] = w
      OBVIOUS
    <3> QED BY <1>4, <3>1 DEF StopTicker
  <2> HIDE DEF S
  <2>3. RestartHasNoTicker'
    BY <1>4 DEF StopTicker, MoveCaller, TickersKnown, RestartHasNoTicker, Callers, CallStates, Without
  <2>4. S \in SUBSET DOMAIN tickers
    BY DEF S
  <2> QED BY <2>1, <2>2, <2>3, <2>4, StopsAreKnown DEF TickersKnown
<1>5. ASSUME NEW c \in Callers, StopAllTickers(c)
      PROVE  TickersKnown'
  <2> DEFINE S == DOMAIN tickers
  <2>1. tickers' = [d \in DOMAIN tickers \ S |-> tickers[d]]
    BY <1>5 DEF StopAllTickers
  <2>2. worker' = [w \in Workers |-> IF \E d \in S : tickers[d] = w
                                     THEN [worker[w] EXCEPT !.ticking = FALSE] ELSE worker[w]]
    BY <1>5 DEF StopAllTickers
  <2>3. RestartHasNoTicker'
    BY <1>5 DEF StopAllTickers, RestartHasNoTicker
  <2>4. S \in SUBSET DOMAIN tickers
    OBVIOUS
  <2> HIDE DEF S
  <2> QED BY <2>1, <2>2, <2>3, <2>4, StopsAreKnown DEF TickersKnown
<1>6. ASSUME NEW c \in Callers, Spawn(c)
      PROVE  TickersKnown'
  <2> DEFINE cid == caller[c].cid
  <2>1. c = "consumer" /\ caller[c].op = "start" /\ cid \in Collectors
    BY <1>6 DEF Spawn, MainStops, Callers, CallStates
  <2>2. cid \notin DOMAIN tickers
    BY <1>6, <2>1 DEF Spawn, TickersKnown, RestartHasNoTicker
  <2>3. caller'["consumer"].op = "none"
    BY <1>6, <2>1 DEF Spawn, EndCall, NoCall, Callers
  <2>4. PICK w \in Workers :
            /\ worker[w] = Unborn
            /\ worker' = [worker EXCEPT ![w] = Newborn(cid)]
            /\ tickers' = [d \in DOMAIN tickers \cup {cid} |-> IF d = cid THEN w ELSE tickers[d]]
    BY <1>6 DEF Spawn
  <2> HIDE DEF cid
  <2>5. worker'[w] # Unborn /\ worker'[w].cid = cid /\ \A v \in Workers \ {w} : worker'[v] = worker[v]
    BY <2>4 DEF Newborn, Unborn
  <2>6. \A d \in DOMAIN tickers : tickers[d] \in Workers /\ tickers[d] # w
    BY <2>4, MapOfFacts DEF TickersKnown, TickersHaveWorkers
  <2>7. TickersHaveWorkers'
    BY <2>4, <2>5, <2>6 DEF TickersKnown, TickersHaveWorkers
  <2>8. RunningTickersAreKnown'
    <3> SUFFICES ASSUME NEW v \in Workers, worker'[v] # Unborn, worker'[v].ticking
                 PROVE  worker'[v].cid \in DOMAIN tickers' /\ tickers'[worker'[v].cid] = v
      BY DEF RunningTickersAreKnown
    <3>1. CASE v = w
      BY <2>4, <2>5, <3>1
    <3>2. CASE v # w
      <4>1. worker[v].cid \in DOMAIN tickers /\ tickers[worker[v].cid] = v
        BY <2>5, <3>2 DEF TickersKnown, RunningTickersAreKnown
      <4> QED BY <2>2, <2>4, <2>5, <3>2, <4>1
    <3> QED BY <3>1, <3>2
  <2> QED BY <2>3, <2>7, <2>8 DEF TickersKnown, RestartHasNoTicker
<1>7. ASSUME NEW c \in Callers,
             RemoveMessage(c) \/ Purge(c) \/ AddEndpoint(c) \/ FirstMessage(c)
                \/ RemoveAllMessages(c) \/ PurgeAll(c)
      PROVE  TickersKnown'
  <2>1. UNCHANGED <<worker, tickers>>
    BY <1>7 DEF RemoveMessage, Purge, AddEndpoint, FirstMessage, RemoveAllMessages, PurgeAll
  <2>2. \/ caller'["consumer"].op \notin {"start", "startDisabled", "stop"}
        \/ /\ caller["consumer"].op \in {"start", "startDisabled", "stop"} /\ caller["consumer"].pc # "lock"
           /\ caller'["consumer"].cid = caller["consumer"].cid
        \/ caller'["consumer"] = caller["consumer"]
    BY <1>7 DEF RemoveMessage, Purge, AddEndpoint, FirstMessage, RemoveAllMessages, PurgeAll, MoveCaller,
       EndCall, NoCall, Callers, CallStates
  <2>3. RestartHasNoTicker'
    BY <2>1, <2>2 DEF TickersKnown, RestartHasNoTicker
  <2> QED BY <1>1, <2>1, <2>3 DEF TickersKnown
<1>8. CASE UNCHANGED <<worker, tickers, caller>>
  <2>1. RestartHasNoTicker'
    BY <1>8 DEF TickersKnown, RestartHasNoTicker
  <2> QED BY <1>1, <1>8, <2>1 DEF TickersKnown
<1>9. ASSUME NEW c \in Callers, CallerStep(c)
      PROVE  TickersKnown'
  BY <1>4, <1>5, <1>6, <1>7, <1>9 DEF CallerStep
<1> QED BY <1>2, <1>3, <1>8, <1>9, WorkerKeepsTickers DEF Next, vars, threads, ReporterStep, ReportBegin,
           ReportPod, ReportEnd, StoreMetrics, StoreDefs

-----------------------------------------------------------------------------
\* Additions keep what is tracked and add the endpoint; a purge takes out its
\* own endpoint and no other.
LEMMA TrackedAfter ==
    ASSUME TrackerTypeOK, NEW cid \in CollectorID, NEW d \in CollectorID
    PROVE  /\ \A ids \in FiniteSubsets(MetricIds) : \A overflow \in SUBSET ids :
                AddMetricsFromCollector(cid, ids, overflow) =>
                    IsTracked(cid)' /\ (IsTracked(d) => IsTracked(d)')
           /\ PurgeMetricsForCollectorEndpoint(cid) /\ d.endpoint # cid.endpoint =>
                    (IsTracked(d) => IsTracked(d)')
<1>0. cid.pod \in Pods /\ d.pod \in Pods
  BY DEF CollectorID
<1>1. ASSUME NEW ids \in FiniteSubsets(MetricIds), NEW overflow \in SUBSET ids,
             AddMetricsFromCollector(cid, ids, overflow), NEW p \in Pods
      PROVE  EndpointsOf(p)' = IF p = cid.pod THEN EndpointsOf(p) \cup {cid.endpoint} ELSE EndpointsOf(p)
  BY <1>1, AddChanges
<1>2. ASSUME PurgeMetricsForCollectorEndpoint(cid), NEW p \in Pods
      PROVE  EndpointsOf(p)' = IF p = cid.pod THEN EndpointsOf(p) \ {cid.endpoint} ELSE EndpointsOf(p)
  BY <1>2, PurgeShrinks
<1>3. ASSUME NEW ids \in FiniteSubsets(MetricIds), NEW overflow \in SUBSET ids,
             AddMetricsFromCollector(cid, ids, overflow)
      PROVE  IsTracked(cid)' /\ (IsTracked(d) => IsTracked(d)')
  BY <1>0, <1>1, <1>3 DEF IsTracked
<1>4. ASSUME PurgeMetricsForCollectorEndpoint(cid), d.endpoint # cid.endpoint
      PROVE  IsTracked(d) => IsTracked(d)'
  BY <1>0, <1>2, <1>4 DEF IsTracked
<1> QED BY <1>3, <1>4

\* An endpoint stays shown unless the call of its own stops it.
LEMMA StaysShown ==
    ASSUME Types, TickersKnown, MainStops, caller["main"] = NoCall, [Next]_vars,
           NEW d \in Collectors, Shown(d),
           ~(Holds("consumer") /\ caller["consumer"].cid = d)
    PROVE  Shown(d)' \/ caller'["main"] # NoCall
<1> USE DEF Shown
<1>0. Collectors \subseteq CollectorID /\ Reports \subseteq FiniteSubsets(MetricIds)
      /\ \A c \in Collectors : c.endpoint = d.endpoint => c = d
  BY ManagerConstants
<1>1. ASSUME UNCHANGED <<allMetrics, reporter>>, messages \subseteq messages'
      PROVE  Shown(d)'
  BY <1>1 DEF IsTracked, EndpointsOf
<1>2. ASSUME NEW cid \in Collectors, NEW ids \in FiniteSubsets(MetricIds), NEW overflow \in SUBSET ids,
             AddMetricsFromCollector(cid, ids, overflow), UNCHANGED <<messages, reporter>>
      PROVE  Shown(d)'
  BY <1>0, <1>2, TrackedAfter DEF Types
<1>3. CASE CallerStep("consumer")
  <2> DEFINE c == "consumer"
  <2>0. Holds(c) => caller[c].cid \in Collectors /\ caller[c].cid.endpoint # d.endpoint
    BY <1>0 DEF Holds, MainStops, Types, CallersTyped, CallStates, Callers
  <2>1. CASE StopTicker(c) \/ StopAllTickers(c) \/ FirstMessage(c) \/ Spawn(c)
    BY <1>1, <2>1 DEF StopTicker, StopAllTickers, FirstMessage, Spawn, SetEndpointMessage
  <2>2. CASE RemoveMessage(c)
    BY <2>0, <2>2 DEF RemoveMessage, RemoveEndpointMessage, Holds, IsTracked, EndpointsOf
  <2>3. CASE Purge(c)
    BY <1>0, <2>0, <2>3, TrackedAfter DEF Purge, Holds, Types
  <2>4. CASE AddEndpoint(c)
    <3>1. caller[c].cid \in Collectors
      BY <2>4 DEF AddEndpoint, Types, CallersTyped, CallStates, Callers
    <3> QED BY NothingIsFinite, <1>2, <2>4, <3>1 DEF AddEndpoint
  <2>5. caller[c].op # "stopAll"
    BY DEF MainStops
  <2> QED BY <1>3, <2>1, <2>2, <2>3, <2>4, <2>5 DEF CallerStep, RemoveAllMessages, PurgeAll
<1>4. ASSUME NEW w \in Workers, Tick(w) \/ WorkerStep(w)
      PROVE  Shown(d)'
  <2>1. CASE Collect(w)
    <3>1. worker[w].cid \in Collectors
      BY <2>1 DEF Collect, Types, WorkersTyped, WorkerStates, Unborn
    <3> QED BY <1>0, <1>2, <2>1, <3>1 DEF Collect
  <2>2. CASE ~Collect(w)
    BY <1>1, <1>4, <2>2 DEF Tick, WorkerStep, Wake, CollectFails, Report, Send, GetDetails, SendDefs,
       SetEndpointMessage
  <2> QED BY <2>1, <2>2
<1>5. CASE ReporterStep
  <2>1. UNCHANGED allMetrics
    BY <1>5 DEF ReporterStep, ReportBegin, ReportPod, ReportEnd
  <2>2. IsTracked(d)'
    BY <2>1 DEF IsTracked, EndpointsOf
  <2>3. CASE ReportBegin
    BY <2>2, <2>3 DEF ReportBegin, IsTracked, EndpointsOf
  <2>4. CASE ReportPod
    BY <2>2, <2>4 DEF ReportPod, IsTracked, Types, ReporterStates
  <2>5. CASE ReportEnd
    BY <2>2, <2>5 DEF ReportEnd
  <2> QED BY <1>5, <2>3, <2>4, <2>5 DEF ReporterStep
<1>6. CASE CallerStep("main")
  BY <1>6 DEF NoCall, CallerStep, StopTicker, RemoveMessage, Purge, AddEndpoint, FirstMessage, Spawn,
     StopAllTickers, RemoveAllMessages, PurgeAll
<1>7. CASE UNCHANGED <<allMetrics, reporter, messages>>
  BY <1>1, <1>7
<1> QED BY <1>3, <1>4, <1>5, <1>6, <1>7 DEF Next, vars, threads, Callers, Invoke, InvokeMain, StoreMetrics, StoreDefs

\* An endpoint that is tracked stays so while no call is stopping any.
LEMMA StaysTracked ==
    ASSUME Types, MainStops, caller["main"] = NoCall, ~Holds("consumer"), [Next]_vars,
           NEW d \in Collectors, IsTracked(d)
    PROVE  IsTracked(d)'
<1>0. Collectors \subseteq CollectorID /\ Reports \subseteq FiniteSubsets(MetricIds)
  BY ManagerConstants
<1>1. ASSUME NEW cid \in Collectors, NEW ids \in FiniteSubsets(MetricIds), NEW overflow \in SUBSET ids,
             AddMetricsFromCollector(cid, ids, overflow)
      PROVE  IsTracked(d)'
  BY <1>0, <1>1, TrackedAfter DEF Types
<1>2. CASE AddEndpoint("consumer")
  <2>1. caller["consumer"].cid \in Collectors
    BY <1>2 DEF AddEndpoint, Types, CallersTyped, CallStates, Callers
  <2> QED BY NothingIsFinite, <1>1, <1>2, <2>1 DEF AddEndpoint
<1>3. ASSUME NEW w \in Workers, Collect(w)
      PROVE  IsTracked(d)'
  <2>1. worker[w].cid \in Collectors
    BY <1>3 DEF Collect, Types, WorkersTyped, WorkerStates, Unborn
  <2> QED BY <1>0, <1>1, <1>3, <2>1 DEF Collect
<1>4. CASE UNCHANGED allMetrics
  BY <1>4 DEF IsTracked, EndpointsOf
<1>5. CASE CallerStep("main")
  BY <1>5 DEF NoCall, CallerStep, StopTicker, RemoveMessage, Purge, AddEndpoint, FirstMessage, Spawn,
     StopAllTickers, RemoveAllMessages, PurgeAll
<1>6. CASE CallerStep("consumer")
  BY <1>2, <1>4, <1>6 DEF Holds, CallerStep, StopTicker, RemoveMessage, Purge, FirstMessage, Spawn,
     StopAllTickers, RemoveAllMessages, PurgeAll
<1> QED BY <1>3, <1>4, <1>5, <1>6 DEF Next, vars, threads, Callers, Invoke, InvokeMain, Tick, WorkerStep,
           Wake, CollectFails, Report, Send, GetDetails, SendDefs, ReporterStep, ReportBegin, ReportPod,
           ReportEnd, StoreMetrics, StoreDefs

\* Every step keeps what has a ticker reported.
LEMMA ReportedStep ==
    ASSUME Types, MainStops, TickersKnown, Reported, [Next]_vars
    PROVE  Reported'
<1> SUFFICES ASSUME caller'["main"] = NoCall
             PROVE  /\ \A cid \in DOMAIN tickers' : Shown(cid)'
                    /\ (caller["consumer"].pc = "spawn" => Shown(caller["consumer"].cid))'
                    /\ (caller["consumer"].pc = "message" => IsTracked(caller["consumer"].cid))'
  BY DEF Reported
<1> PICK k : k = caller["consumer"]
  OBVIOUS
<1>0. caller["main"] = NoCall
  BY MainStopsStep DEF Types
<1>1. /\ \A d \in DOMAIN tickers : d \in Collectors /\ Shown(d) /\ ~(Holds("consumer") /\ k.cid = d)
      /\ k \in CallStates /\ k.op # "stopAll"
  <2>1. DOMAIN tickers \subseteq Collectors /\ k \in CallStates /\ k.op # "stopAll"
    BY MapOfFacts DEF Types, CallersTyped, MainStops, Callers
  <2>2. Holds("consumer") => k.op \in {"start", "startDisabled", "stop"} /\ k.pc # "lock"
    BY <2>1 DEF Holds, CallStates
  <2> QED BY <1>0, <2>1, <2>2 DEF TickersKnown, RestartHasNoTicker, Reported
<1>2. \A d \in DOMAIN tickers : Shown(d)'
  BY <1>0, <1>1, StaysShown
<1>3. k.pc \in {"message", "spawn"} => k.cid \in Collectors /\ ~Holds("consumer") /\ IsTracked(k.cid)
  BY <1>0, <1>1 DEF CallStates, Holds, Reported, Shown
<1>4. k.pc = "spawn" => Shown(k.cid)'
  BY <1>0, <1>3, StaysShown DEF Reported
<1>5. ASSUME NEW d \in DOMAIN tickers', d \notin DOMAIN tickers
      PROVE  Shown(d)'
  <2>1. PICK c \in Callers : Spawn(c)
    BY <1>5 DEF Next, vars, threads, CallerStep, StopTicker, RemoveMessage, Purge, AddEndpoint, FirstMessage,
       StopAllTickers, RemoveAllMessages, PurgeAll, Invoke, InvokeMain, Tick, WorkerStep, Wake,
       CollectFails, Collect, Report, Send, GetDetails, SendDefs, ReporterStep, ReportBegin,
       ReportPod, ReportEnd, StoreMetrics, StoreDefs, Without
  <2>2. c = "consumer" /\ k.pc = "spawn" /\ d = k.cid
    BY <1>5, <2>1 DEF Spawn, MainStops, Callers
  <2> QED BY <1>4, <2>2
<1>6. CASE caller'["consumer"] = k
  <2>1. k.pc = "message" => IsTracked(k.cid)'
    BY <1>0, <1>3, StaysTracked
  <2> QED BY <1>2, <1>4, <1>5, <1>6, <2>1
<1>7. CASE caller'["consumer"].pc \notin {"spawn", "message"}
  BY <1>2, <1>5, <1>7
<1>8. CASE CallerStep("consumer")
  <2> DEFINE c == "consumer"
  <2>0. caller \in [Callers -> CallStates] /\ c \in Callers
    BY DEF Types, CallersTyped, Callers
  <2>1. CASE AddEndpoint(c)
    <3>1. k.cid \in CollectorID
      BY <1>1, <2>1, ManagerConstants DEF AddEndpoint, CallStates
    <3>2. IsTracked(k.cid)'
      BY NothingIsFinite, <2>1, <3>1, TrackedAfter DEF AddEndpoint, Types
    <3>3. caller'[c].pc = "message" /\ caller'[c].cid = k.cid
      BY <1>1, <2>0, <2>1 DEF AddEndpoint, MoveCaller, CallStates
    <3> QED BY <1>2, <1>5, <3>2, <3>3
  <2>2. CASE FirstMessage(c)
    <3>1. k.pc = "message" /\ k.cid \in Collectors
      BY <1>3, <2>2 DEF FirstMessage
    <3>2. Shown(k.cid)'
      BY <1>3, <2>2, <3>1 DEF FirstMessage, SetEndpointMessage, Shown, IsTracked, EndpointsOf
    <3>3. CASE caller'[c].pc = "spawn" /\ caller'[c].cid = k.cid
      BY <1>2, <1>5, <3>2, <3>3
    <3>4. \/ caller'[c].pc = "spawn" /\ caller'[c].cid = k.cid
          \/ caller'[c].pc = "idle"
      BY <1>1, <2>0, <2>2 DEF FirstMessage, MoveCaller, EndCall, NoCall, CallStates
    <3> QED BY <1>7, <3>3, <3>4
  <2>3. CASE StopTicker(c) \/ RemoveMessage(c)
    BY <1>7, <2>0, <2>3 DEF StopTicker, RemoveMessage, MoveCaller, CallStates
  <2>4. CASE Purge(c)
    BY <1>7, <2>0, <2>4 DEF Purge, MoveCaller, EndCall, NoCall, CallStates
  <2>5. CASE Spawn(c)
    BY <1>7, <2>0, <2>5 DEF Spawn, EndCall, NoCall
  <2> QED BY <1>1, <1>8, <2>1, <2>2, <2>3, <2>4, <2>5 DEF CallerStep, StopAllTickers, RemoveAllMessages, PurgeAll
<1>9. CASE Invoke
  BY <1>7, <1>9 DEF Invoke, Types, CallersTyped, Callers
<1>10. CASE InvokeMain \/ CallerStep("main")
  <2>1. caller'["consumer"] = k
    BY <1>10 DEF Types, CallersTyped, InvokeMain, Callers, CallerStep, StopTicker, RemoveMessage, Purge,
       AddEndpoint, FirstMessage, Spawn, StopAllTickers, RemoveAllMessages, PurgeAll, MoveCaller, EndCall
  <2> QED BY <1>6, <2>1
<1>11. CASE UNCHANGED caller
  BY <1>6, <1>11
<1> QED BY <1>8, <1>9, <1>10, <1>11 DEF Next, vars, threads, Callers, Tick, WorkerStep, Wake, CollectFails,
           Collect, Report, Send, GetDetails, SendDefs, ReporterStep, ReportBegin, ReportPod, ReportEnd,
           StoreMetrics, StoreDefs
-----------------------------------------------------------------------------
\* Nothing is started and nobody has called.
LEMMA InitHolds == Init => IInv
<1> SUFFICES ASSUME Init PROVE IInv
  OBVIOUS
<1> USE DEF Init, NoCall, Callers
<1>1. Types
  <2>1. tickers \in MapOf(Collectors, Workers)
    <3>1. tickers \in [{} -> Workers]
      OBVIOUS
    <3> QED BY <3>1, MapOfIntro
  <2>2. CallersTyped /\ WorkersTyped /\ reporter \in ReporterStates
    BY DEF CallersTyped, CallStates, WorkersTyped, ReporterStates
  <2>3. ChannelsTyped
    BY ManagerConstants DEF ChannelsTyped
  <2> QED BY <2>1, <2>2, <2>3, TypeInit DEF Types
<1>2. Locked
  BY DEF Locked, Holds
<1>3. MainStops
  BY DEF MainStops
<1>4. TickersKnown
  BY DEF TickersKnown, RestartHasNoTicker, TickersHaveWorkers, RunningTickersAreKnown
<1>5. Reported
  BY DEF Reported
<1> QED BY <1>1, <1>2, <1>3, <1>4, <1>5 DEF IInv

\* No step breaks it.
LEMMA StepHolds == IInv /\ [Next]_vars => IInv'
<1> SUFFICES ASSUME IInv, [Next]_vars PROVE IInv'
  OBVIOUS
<1>1. Types'
  BY TypesStep DEF IInv
<1>2. Locked' /\ MainStops'
  BY LockedStep, MainStopsStep DEF IInv, Types
<1>3. TickersKnown'
  BY TickersStep DEF IInv
<1>4. Reported'
  BY ReportedStep DEF IInv
<1> QED BY <1>1, <1>2, <1>3, <1>4 DEF IInv

\* The manager is never in a state outside the inductive invariant.
LEMMA Invariant == Spec => []IInv
BY InitHolds, StepHolds, PTL DEF Spec

\* Calls, workers, tickers, messages and channels stay within their types, and
\* at most one of the two callers is inside the section under TickersLock.
THEOREM ManagerTypeCorrect == Spec => []TypeOK
<1>1. IInv => TypeOK
  <2> SUFFICES ASSUME IInv PROVE TypeOK
    OBVIOUS
  <2> USE DEF IInv, Types
  <2>1. Cardinality(tickersLock) <= 1
    <3>1. CASE tickersLock = {}
      BY <3>1, FS_EmptySet
    <3>2. ASSUME NEW c \in tickersLock
          PROVE  Cardinality(tickersLock) <= 1
      <4>1. tickersLock = {c}
        BY <3>2 DEF Locked
      <4>2. Cardinality({c}) = 1
        BY FS_Singleton
      <4> QED BY <4>1, <4>2
    <3> QED BY <3>1, <3>2
  <2>2. \A c \in Callers : caller[c].op \in {"none", "stopAll"} \/ caller[c].cid \in Collectors
    BY DEF CallersTyped, CallStates
  <2>3. \A w \in Workers : worker[w] = Unborn \/ worker[w].cid \in Collectors
    BY DEF WorkersTyped, WorkerStates
  <2> QED BY <2>1, <2>2, <2>3 DEF TypeOK, Locked, ChannelsTyped
<1> QED BY <1>1, Invariant, PTL

\* The section of StopCollecting and StopCollectingAll under TickersLock is
\* executed by the consumer or by main, never by both.
THEOREM StopsExclude == Spec => [](\A c, d \in Callers : Holds(c) /\ Holds(d) => c = d)
<1>1. IInv => \A c, d \in Callers : Holds(c) /\ Holds(d) => c = d
  BY DEF IInv, Locked
<1> QED BY <1>1, Invariant, PTL

\* However many times endpoints are stopped and started again: a ticker that
\* runs is in Tickers, where it can be stopped, and no two run for one endpoint.
THEOREM RunningTickersAreKnownHolds == Spec => []RunningTickersAreKnown
<1>1. IInv => RunningTickersAreKnown
  BY DEF IInv, TickersKnown
<1> QED BY <1>1, Invariant, PTL

\* Until main stops them, all endpoints with a ticker are tracked and have a
\* message, whatever the status emitter has seen of the tracker and when.
THEOREM ActiveIsReportedHolds == Spec => []ActiveIsReported
<1>1. IInv => ActiveIsReported
  BY DEF IInv, Reported, Shown, ActiveIsReported
<1> QED BY <1>1, Invariant, PTL

\* All the manager's goroutines together use the tracker as its specification
\* says: what is proved of the tracker holds in the manager.
THEOREM ManagerUsesTracker == Spec => TrackerSpec
<1>1. Init => TrackerInit
  BY DEF Init
<1>2. IInv /\ [Next]_vars => [TrackerNext]_allMetrics
  BY TrackerSteps DEF IInv, Types
<1> QED BY <1>1, <1>2, Invariant, PTL DEF Spec, TrackerSpec

\* A pod stays within Max_Metrics_Per_Pod while its endpoints are collected,
\* stopped, started again and shut down all at once.
THEOREM ManagerKeepsPodLimit == Spec => []PodLimit
BY ManagerUsesTracker, PodLimitHolds

\* Nor does one of those collections drop a metric of its endpoint or another.
THEOREM ManagerEvictsNothing == Spec => NoEviction
BY ManagerUsesTracker, NoEvictionHolds
=============================================================================
