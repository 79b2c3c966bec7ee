---------------------------- MODULE Collection ----------------------------
(***************************************************************************)
(* What the workers of the collector manager do in one collection          *)
(* (collector/manager/metrics_collector_manager.go, StartCollecting and    *)
(* createMetricDefinition), composed with the three collectors and the     *)
(* metrics tracker: which metrics are collected, under which IDs, and how  *)
(* they are defined.  CollectorManager has the starting and stopping of    *)
(* the workers, the locks and the channels.                                *)
(*                                                                         *)
(* The pods of a behaviour use the same configuration and so share one     *)
(* slice of metrics (k8s/node_event_consumer.go:273), in which every       *)
(* worker expands the names for its own pod.                               *)
(***************************************************************************)
EXTENDS MetricsTracker, JSONCollector, JolokiaCollector, PrometheusCollector, Tokens

CONSTANTS
    Configurations,  \* endpoints of config maps: kind, metrics, tags, and the pods that use it
    Families,        \* what a Prometheus endpoint may serve: sets of families
    Beans,           \* what a Jolokia endpoint may answer: functions from names to answers
    PodEnv,          \* additionalEnv of each pod
    OSEnv,           \* environment of the agent
    Prefix,          \* Metric_ID_Prefix
    GlobalTags,      \* the tags of the agent's configuration
    LabelOrder,      \* all label names, sorted
    MaxRounds        \* bound: collections of a worker

\* What the decoders and ValidateEndpoint leave of configurations, what the decoders
\* make of answers, and what is run on the agent's node.
ASSUME CollectionConstants ==
    /\ \A c \in Configurations :
        /\ c.at \in MapOf(Pods, Endpoints)
        /\ c.metrics \in Seq(ToSet(c.metrics))
        /\ \A m \in ToSet(c.metrics) :
            /\ DOMAIN m = {"name", "id", "type", "tags"}
            /\ IsString(m.name) /\ m.name # <<>> /\ IsString(m.id)
    /\ \A families \in Families :
        /\ IsFiniteSet(families)
        /\ \A f \in families : IsString(f.name) /\ f.name # <<>> /\ f.samples \in Seq(ToSet(f.samples))
    /\ \A beans \in Beans : \A n \in DOMAIN beans : IsAnswer(beans[n])
    /\ IsString(Prefix)
    /\ LabelOrder \in Seq(ToSet(LabelOrder))
    /\ MaxRounds \in Nat

VARIABLES
    endpoint,   \* the configuration
    slice,      \* the shared slice: the metrics' names, IDs, types and tags
    worker      \* the collector and the goroutine of each pod

collectionVars == <<allMetrics, endpoint, slice, worker>>
vars == <<allMetrics, endpoint, slice, worker, jsonVars>>

cid(p) == [pod |-> p, endpoint |-> endpoint.at[p]]

\* The collector is not made yet.
NewWorker == [pc |-> "construct", nameMap |-> {}, next |-> 1, byName |-> <<>>, rounds |-> 0,
              scraped |-> {}, headers |-> <<>>, pieces |-> {}, needed |-> <<>>,
              declared |-> {}, defined |-> <<>>]

Init ==
    /\ TrackerInit
    /\ JSONInit
    /\ endpoint \in Configurations
    /\ slice = endpoint.metrics
    /\ worker = [p \in DOMAIN endpoint.at |-> NewWorker]
    /\ endpoint.kind = "json" => {<<Text(id)>> : id \in monitored} = {m.name : m \in ToSet(slice)}
    /\ endpoint.kind # "json" => monitored = {}

\* Faulty: the collector looks for IDs where it should look for names.
ConstructById(p) ==
    /\ worker[p].pc = "construct"
    /\ slice' = [i \in DOMAIN slice |->
            [slice[i] EXCEPT !.id = IF @ = <<>> THEN slice[i].name ELSE @]]
    /\ worker' = [worker EXCEPT ![p].pc = "expand", ![p].nameMap = {m.id : m \in ToSet(slice')}]
    /\ UNCHANGED <<allMetrics, endpoint, jsonVars>>

\* startCollecting: ValidateEndpoint gives metrics without ID their name, and
\* the collector is made with the names as they are in the slice now.
Construct(p) ==
    /\ worker[p].pc = "construct"
    /\ slice' = [i \in DOMAIN slice |->
            [slice[i] EXCEPT !.id = IF @ = <<>> THEN slice[i].name ELSE @]]
    /\ worker' = [worker EXCEPT ![p].pc = "expand", ![p].nameMap = {m.name : m \in ToSet(slice)}]
    /\ UNCHANGED <<allMetrics, endpoint, jsonVars>>

\* The goroutine expands one name after the other, in place.
ExpandName(p) ==
    /\ worker[p].pc = "expand" /\ worker[p].next <= Len(slice)
    /\ slice' = [slice EXCEPT ![worker[p].next].name = Expand(@, PodEnv[p], TRUE)]
    /\ worker' = [worker EXCEPT ![p].next = @ + 1]
    /\ UNCHANGED <<allMetrics, endpoint, jsonVars>>

\* monitoredMetricsByNameMap; of metrics with the same name the last stays.
CacheMetrics(p) ==
    /\ worker[p].pc = "expand" /\ worker[p].next > Len(slice)
    /\ worker' = [worker EXCEPT ![p].pc = "wait",
            ![p].byName = [n \in {m.name : m \in ToSet(slice)} |->
                                slice[Max({i \in DOMAIN slice : slice[i].name = n})]]]
    /\ UNCHANGED <<allMetrics, endpoint, slice, jsonVars>>
-----------------------------------------------------------------------------
(* What the collectors return: headers of a name, a type and data points.  *)

LabelName == <<"label1", "label2", "label3", "label4">>

\* Statistics of arrays are gauges whatever was asked for.
JSONHeader(m) ==
    LET id == m.key.id
        types == {x.type : x \in {y \in ToSet(slice) : y.name = <<Text(id)>>}}
        labels == [k \in {LabelName[i] : i \in DOMAIN m.key.labels} |->
                      m.key.labels[CHOOSE i \in DOMAIN m.key.labels : LabelName[i] = k]]
    IN  [name |-> <<Text(id)>>,
         type |-> IF m.key.stat = "none" /\ types # {} THEN CHOOSE t \in types : TRUE ELSE "gauge",
         data |-> IF m = Blank THEN <<>>
                  ELSE <<[tags |-> IF m.key.stat = "none" THEN labels ELSE Over(Tag("array_stat", m.key.stat), labels),
                          value |-> m.value]>>]

EndRound(p) == [worker[p] EXCEPT !.pc = "wait", !.scraped = {}, !.headers = <<>>, !.pieces = {}, !.needed = <<>>]

CollectFails(p) ==
    /\ worker[p].pc = "wait" /\ worker[p].rounds < MaxRounds
    /\ endpoint.kind = "json" => collector = "failed"
    /\ worker' = [worker EXCEPT ![p] = [EndRound(p) EXCEPT !.rounds = @ + 1]]
    /\ UNCHANGED <<allMetrics, endpoint, slice, jsonVars>>

\* The worker calls CollectMetrics.
Collected(p, scraped, headers) ==
    /\ worker[p].pc = "wait" /\ worker[p].rounds < MaxRounds
    /\ worker' = [worker EXCEPT ![p].pc = "process", ![p].rounds = @ + 1,
                                ![p].scraped = scraped, ![p].headers = headers]
    /\ UNCHANGED <<allMetrics, endpoint, slice, jsonVars>>

CollectPrometheus(p) ==
    /\ endpoint.kind = "prometheus"
    /\ \E families \in Families :
        Collected(p, families, PrometheusHeaders(worker[p].nameMap, families))

CollectJolokia(p) ==
    /\ endpoint.kind = "jolokia"
    /\ \E beans \in Beans : Collected(p, {beans}, IF slice = <<>> THEN <<>> ELSE JolokiaHeaders(slice, beans))

\* Only the first collection of a JSON endpoint.
CollectJSON(p) ==
    /\ endpoint.kind = "json" /\ worker[p].rounds = 0
    /\ collector = "returned"
    /\ Collected(p, {document}, [i \in DOMAIN returned |-> JSONHeader(returned[i])])

JSONStep == endpoint.kind = "json" /\ JSONNext /\ UNCHANGED collectionVars
-----------------------------------------------------------------------------
(* What the worker makes of the headers.                                   *)

Knows(p, h) == worker[p].byName = <<>> \/ h.name \in DOMAIN worker[p].byName

\* Endpoints without metrics have all collected as they are.
MetricOf(p, h) ==
    IF worker[p].byName = <<>>
    THEN [id |-> h.name, name |-> h.name, type |-> h.type, tags |-> <<>>]
    ELSE worker[p].byName[h.name]

\* Faulty: the labels of the first data point are taken for those of all.
LabelsOfFirst(h) == IF h.data = <<>> THEN {} ELSE DOMAIN h.data[1].tags

LabelsIn(h) == UNION {DOMAIN d.tags : d \in ToSet(h.data)}

\* Without tokens in the ID the labels are appended to it, sorted.
Template(p, h) ==
    LET id == Expand(Prefix, Over(PodEnv[p], OSEnv), FALSE) \o Expand(MetricOf(p, h).id, PodEnv[p], TRUE)
        label(k) == IF k \in LabelsIn(h) THEN <<Text(k), Token(k)>> ELSE <<>>
    IN  IF HasTokens(id) THEN id ELSE id \o FlattenSeq([i \in DOMAIN LabelOrder |-> label(LabelOrder[i])])

\* The metrics that h is split into, or h as a whole: their IDs, data points
\* and, when split, the labels.
Split(p, h) ==
    LET t == Template(p, h)
        piece(id, data, labels) ==
            [id |-> id, name |-> h.name, type |-> h.type, data |-> data, labels |-> labels, metric |-> MetricOf(p, h)]
    IN  IF HasTokens(t)
        THEN [j \in DOMAIN h.data |-> piece(Expand(t, h.data[j].tags, FALSE), <<h.data[j]>>, h.data[j].tags)]
        ELSE <<piece(t, h.data, <<>>)>>

Pieces(p) ==
    LET headers == worker[p].headers
    IN  FlattenSeq([i \in DOMAIN headers |-> IF Knows(p, headers[i]) THEN Split(p, headers[i]) ELSE <<>>])

IdsOf(pieces) == {x.id : x \in pieces}

\* Faulty: the configured tags of a metric are not cloned for each piece.
TagsUncloned(pieces, k) ==
    LET before == {j \in 1 .. k : pieces[j].metric = pieces[k].metric /\ pieces[k].metric.tags # <<>>}
    IN  FoldLeft(LAMBDA tags, x : Over(x.labels, tags), pieces[k].metric.tags,
                 [j \in 1 .. k |-> IF j \in before \cup {k} THEN pieces[j] ELSE pieces[k]])

\* The tags of the metric, and the labels over them.
TagsWithLabels(pieces, k) == Over(pieces[k].labels, pieces[k].metric.tags)

\* The definitions of the given IDs; the last piece with the ID counts.
Needed(pieces, ids) ==
    [id \in ids |->
        LET k == Max({j \in DOMAIN pieces : pieces[j].id = id})
        IN  [pieces[k].metric EXCEPT !.tags = TagsWithLabels(pieces, k)]]

\* Faulty: discarded metrics are defined as well.
ProcessDefiningAll(p) ==
    /\ worker[p].pc = "process"
    /\ LET pieces == Pieces(p)
           ids == IdsOf(ToSet(pieces))
       IN  \E overflow \in Overflows(cid(p), ids) :
            /\ allMetrics' = Track(cid(p), ids \ overflow)
            /\ worker' = [worker EXCEPT ![p].pc = "define", ![p].pieces = ToSet(pieces),
                    ![p].needed = Needed(pieces, ids \ worker[p].declared)]
    /\ UNCHANGED <<endpoint, slice, jsonVars>>

\* The worker splits and names the metrics, has the tracker choose which are
\* over the limit (AddMetricsFromCollector), and sends the others to storage.
Process(p) ==
    /\ worker[p].pc = "process"
    /\ LET pieces == Pieces(p)
           ids == IdsOf(ToSet(pieces))
       IN  \E overflow \in Overflows(cid(p), ids) :
            /\ allMetrics' = Track(cid(p), ids \ overflow)
            /\ worker' = [worker EXCEPT ![p].pc = "define",
                    ![p].pieces = {x \in ToSet(pieces) : x.id \notin overflow},
                    ![p].needed = Needed(pieces, (ids \ worker[p].declared) \ overflow)]
    /\ UNCHANGED <<endpoint, slice, jsonVars>>

\* The definition: the declared type, else that of the details, else gauge.
\* missing says that details were got, but none of the metric.
Definition(metric, details, got) ==
    LET types == {x.type : x \in {y \in details : y.name = metric.name}}
    IN  [type |-> CASE metric.type # "" -> metric.type
                    [] metric.type = "" /\ types # {} -> CHOOSE t \in types : TRUE
                    [] OTHER -> "gauge",
         missing |-> got /\ metric.name \notin {x.name : x \in details},
         tags |-> Over(GlobalTags, Over(metric.tags, endpoint.tags))]

\* Only Prometheus endpoints have details, from another scrape.
Details(p) ==
    IF endpoint.kind # "prometheus" THEN {{}}
    ELSE {PrometheusDetails({m.name : m \in Range(worker[p].needed)}, families) : families \in Families}

DefinitionsSent(p, details, got) ==
    Over([id \in DOMAIN worker[p].needed |-> Definition(worker[p].needed[id], details, got)],
         worker[p].defined)

\* Faulty: the definitions count as declared although details are missing.
DefineWithoutDetailsForGood(p) ==
    /\ worker[p].pc = "define" /\ worker[p].needed # <<>> /\ endpoint.kind = "prometheus"
    /\ worker' = [worker EXCEPT ![p].pc = "done", ![p].defined = DefinitionsSent(p, {}, FALSE),
                                ![p].declared = @ \cup DOMAIN worker[p].needed]
    /\ UNCHANGED <<allMetrics, endpoint, slice, jsonVars>>

\* The scrape for the details fails: the definitions are sent, and needed again.
DefineWithoutDetails(p) ==
    /\ worker[p].pc = "define" /\ worker[p].needed # <<>> /\ endpoint.kind = "prometheus"
    /\ worker' = [worker EXCEPT ![p].pc = "done", ![p].defined = DefinitionsSent(p, {}, FALSE)]
    /\ UNCHANGED <<allMetrics, endpoint, slice, jsonVars>>

Define(p) ==
    /\ worker[p].pc = "define"
    /\ \E details \in Details(p) :
        worker' = [worker EXCEPT ![p].pc = "done", ![p].defined = DefinitionsSent(p, details, TRUE),
                                 ![p].declared = @ \cup DOMAIN worker[p].needed]
    /\ UNCHANGED <<allMetrics, endpoint, slice, jsonVars>>

\* Back to the range over the ticker's channel.
NextRound(p) ==
    /\ worker[p].pc = "done"
    /\ worker' = [worker EXCEPT ![p] = EndRound(p)]
    /\ UNCHANGED <<allMetrics, endpoint, slice, jsonVars>>

WorkerStep(p) ==
    \/ Construct(p) \/ ExpandName(p) \/ CacheMetrics(p)
    \/ CollectFails(p) \/ CollectPrometheus(p) \/ CollectJolokia(p) \/ CollectJSON(p)
    \/ Process(p) \/ DefineWithoutDetails(p) \/ Define(p) \/ NextRound(p)

Next == JSONStep \/ \E p \in DOMAIN worker : WorkerStep(p)

\* The goroutines of the JSON collector go on running.
Spec == Init /\ [][Next]_vars /\ JSONFairness
-----------------------------------------------------------------------------
TypeOK ==
    /\ JSONTypeOK
    /\ endpoint \in Configurations
    /\ DOMAIN worker = DOMAIN endpoint.at
    /\ \A p \in DOMAIN worker :
        /\ worker[p].pc \in {"construct", "expand", "wait", "process", "define", "done"}
        /\ worker[p].rounds \in 0 .. MaxRounds
        /\ \A id \in IdsOf(worker[p].pieces) \cup DOMAIN worker[p].defined : ~HasTokens(id)

\* The names that pod p is to be asked for.
OwnNames(p) == {Expand(m.name, PodEnv[p], TRUE) : m \in ToSet(endpoint.metrics)}

\* The names for which the endpoint had something.
Present(p) ==
    CASE endpoint.kind = "prometheus" ->
            {f.name : f \in {x \in worker[p].scraped :
                        x.type \in {"gauge", "counter"} /\ (OwnNames(p) = {} \/ x.name \in OwnNames(p))}}
      [] endpoint.kind = "jolokia" ->
            {n \in OwnNames(p) : \E beans \in worker[p].scraped :
                /\ n \in DOMAIN beans /\ NewMetricNameParts(n).valid
                /\ beans[n].kind # "error" /\ Leaves(NewMetricNameParts(n), beans[n]) # {}}

(* A pod is asked for the metrics of its configuration, with its own       *)
(* properties for the tokens in their names: what of these its endpoint    *)
(* has is what reaches storage, and nothing else.  The names pass through  *)
(* the shared slice, the collector's map, the endpoint's answers and the   *)
(* worker's map.                                                           *)
CollectsWhatIsMonitored ==
    \A p \in DOMAIN worker :
        worker[p].pc = "process" /\ endpoint.kind # "json" =>
            {h.name : h \in {x \in ToSet(worker[p].headers) : Knows(p, x)}} = Present(p)

(* Data points of different time series are stored under different IDs     *)
(* although IDs are made by expanding a template in three steps: those of  *)
(* different metrics, those of one metric with different labels if the     *)
(* configured ID leaves it to the agent to tell them apart, and those of   *)
(* different pods if the configured IDs name the pod.                      *)
SeriesStayApart ==
    \A p, q \in DOMAIN worker : \A x \in worker[p].pieces, y \in worker[q].pieces :
        x.id = y.id =>
            /\ x.name = y.name
            /\ \/ x.labels = y.labels
               \/ HasTokens(Expand(x.metric.id, PodEnv[p], TRUE))
            /\ p = q \/ Expand(x.metric.id, PodEnv[p], TRUE) = Expand(y.metric.id, PodEnv[q], TRUE)

(* After a collection the metrics that storage has definitions of, sent by *)
(* this worker, are exactly those that the tracker counts for its          *)
(* endpoint: none of the discarded ones is defined, in whichever round the *)
(* pod's limit was reached, and none that is stored is left undefined.     *)
DefinedAreTracked ==
    \A p \in DOMAIN worker :
        /\ worker[p].pc = "done" => DOMAIN worker[p].defined = MetricsOf(cid(p).pod, cid(p).endpoint)
        /\ worker[p].pc \in {"define", "done"} =>
            IdsOf(worker[p].pieces) \subseteq MetricsOf(cid(p).pod, cid(p).endpoint)

(* A definition that will not be sent again has the type of the data       *)
(* points: it was declared only with the details, even if the scrape for   *)
(* the details failed at first, and they were the metric's own.  Not if    *)
(* another type was configured, nor if that scrape did not have the metric.*)
TypesMatch ==
    \A p \in DOMAIN worker : \A x \in worker[p].pieces :
        /\ x.id \in worker[p].declared /\ ~worker[p].defined[x.id].missing
        /\ x.metric.type \in {"", x.type}
        => worker[p].defined[x.id].type = x.type

(* A definition carries the labels of a data point stored under its ID and *)
(* of no other, over the tags of its metric and of the endpoint and under  *)
(* the global ones: the pieces of a metric share none of their tags.       *)
LabelsOfOnePoint ==
    \A p \in DOMAIN worker :
        worker[p].pc = "done" => \A id \in DOMAIN worker[p].needed :
            \E x \in worker[p].pieces :
                /\ x.id = id
                /\ worker[p].defined[id].tags =
                        Over(GlobalTags, Over(x.labels, Over(x.metric.tags, endpoint.tags)))

(* The data points of a Jolokia metric are the numbers of its answer, each *)
(* once, tagged with what the wildcards of the name stand for, as long as  *)
(* composite attributes hold no maps (processMultipleMBeans and below).    *)
LeavesAreCollected ==
    \A p \in DOMAIN worker :
        worker[p].pc = "process" /\ endpoint.kind = "jolokia" =>
            \A n \in Present(p), beans \in worker[p].scraped :
                LET headers == SelectSeq(worker[p].headers, LAMBDA h : h.name = n)
                    parts == NewMetricNameParts(n)
                IN  IsFlat(parts, beans[n]) =>
                        /\ Len(headers) = Cardinality(Leaves(parts, beans[n]))
                        /\ {h.data[1] : h \in ToSet(headers)} = Leaves(parts, beans[n])
=============================================================================
