--------------------------- MODULE JSONCollector ---------------------------
(***************************************************************************)
(* One collection of the JSON collector                                    *)
(* (collector/impl/json_metrics_collector.go).  CollectMetrics walks the   *)
(* document it got from the endpoint and sends what it finds through an    *)
(* unbuffered channel to a goroutine of its own, which drops duplicates    *)
(* and appends the others to the list that CollectMetrics returns.  It     *)
(* closes the channel and returns without waiting for that goroutine.      *)
(*                                                                         *)
(* A JSON value is a record with a kind: "number" and "bool", "numeral"    *)
(* (a string that parses as a number), "text" (another string, or null),   *)
(* "array" with its items, "object" with its fields.  Names are not empty. *)
(***************************************************************************)
EXTENDS Integers, SequencesExt

CONSTANTS
    Documents,     \* the documents an endpoint may serve: functions from names to values
    MonitoredSets  \* the possible sets of names of Endpoint.Metrics; {} asks for all

VARIABLES
    monitored,  \* metricNameMap
    document,   \* the document that is walked
    collector,  \* where CollectMetrics is
    stack,      \* the loops of the calls of processJSON, innermost first: what each has left
    outbox,     \* the metrics processJSON is about to send
    closed,     \* metricsChan is closed
    receiver,   \* where the goroutine is, and the metric it received last
    metrics,    \* the list it appends to
    returned,   \* the list CollectMetrics returned
    sent        \* history: everything sent through metricsChan

jsonVars == <<monitored, document, collector, stack, outbox, closed, receiver, metrics, returned, sent>>

\* What tells metrics apart: their ID and the tags of their only data point.
\* The label tags are the names below the top-level one, in order.
Metric(id, labels, stat, value) ==
    [key |-> [id |-> id, labels |-> labels, stat |-> stat], value |-> value]

Keys(list) == {m.key : m \in ToSet(list)}

\* A list element whose memory was not written yet.
Blank == Metric("", <<>>, "", <<>>)

Stats == <<"min", "max", "avg", "stddev">>

Converts(v) == v.kind \in {"number", "numeral"}   \* to a float

\* The items of an array are all of the kind its first item has.
Items(v, kind) == IF v.kind = "array" /\ v.items # <<>> /\ v.items[1].kind = kind
                    THEN v.items ELSE <<>>

JSONInit ==
    /\ monitored \in MonitoredSets
    /\ collector = "scrape"
    /\ receiver = [pc |-> "none", metric |-> Blank]
    /\ closed = FALSE
    /\ document = << >> /\ stack = << >> /\ outbox = << >>
    /\ metrics = << >> /\ returned = << >> /\ sent = << >>
-----------------------------------------------------------------------------
\* A call of processJSON that is yet to be made: for a metric ID and a value,
\* with the labels that processJSON appends its own name to.
Entry(id, labels, v) == [id |-> id, labels |-> labels, value |-> v]

\* The calls of one round of a loop of processJSON over a map.  A value that is
\* not a map in an array of maps fails the type assertion.
Fields(e, v) ==
    IF v.kind = "object"
    THEN {Entry(e.id, Append(e.labels, name), v.fields[name]) : name \in DOMAIN v.fields}
    ELSE {Entry(e.id, e.labels, [kind |-> "not a map"])}

\* The loops that processing e starts.
Loops(e) ==
    IF e.value.kind = "object" THEN <<Fields(e, e.value)>>
    ELSE [i \in DOMAIN Items(e.value, "object") |-> Fields(e, e.value.items[i])]

\* The metrics that processing e sends itself.
Emits(e) ==
    LET numbers == Items(e.value, "number")
    IN  IF e.value.kind \in {"number", "bool"}
        THEN <<Metric(e.id, e.labels, "none", <<e.value.value>>)>>
        ELSE IF numbers # <<>> /\ \A v \in ToSet(numbers) : Converts(v)
        THEN [i \in DOMAIN Stats |->
                Metric(e.id, e.labels, Stats[i], [j \in DOMAIN numbers |-> numbers[j].value])]
        ELSE <<>>

Monitored(id) == monitored = {} \/ id \in monitored

\* Building the client, the request, and decoding the document may all fail.
ScrapeFails ==
    /\ collector = "scrape"
    /\ collector' = "failed"
    /\ UNCHANGED <<monitored, document, stack, outbox, closed, receiver, metrics, returned, sent>>

Scrape ==
    /\ collector = "scrape"
    /\ collector' = "walk"
    /\ document' \in Documents
    /\ stack' = <<{Entry(name, <<>>, document'[name]) : name \in DOMAIN document'}>>
    /\ receiver' = [receiver EXCEPT !.pc = "receive"]
    /\ UNCHANGED <<monitored, outbox, closed, metrics, returned, sent>>

\* The innermost loop makes its next call, in the order Go iterates over a map.
processJSON ==
    /\ collector = "walk" /\ outbox = <<>> /\ stack # <<>>
    /\ \E e \in Head(stack) :
        /\ e.value.kind # "not a map"
        /\ stack' = (IF Monitored(e.id) THEN Loops(e) ELSE <<>>) \o <<Head(stack) \ {e}>> \o Tail(stack)
        /\ outbox' = IF Monitored(e.id) THEN Emits(e) ELSE <<>>
    /\ UNCHANGED <<monitored, document, collector, closed, receiver, metrics, returned, sent>>

LoopEnds ==
    /\ collector = "walk" /\ outbox = <<>> /\ stack # <<>>
    /\ Head(stack) = {}
    /\ stack' = Tail(stack)
    /\ UNCHANGED <<monitored, document, collector, outbox, closed, receiver, metrics, returned, sent>>

\* The failed type assertion ends the agent.
Panic ==
    /\ collector = "walk" /\ outbox = <<>> /\ stack # <<>>
    /\ \E e \in Head(stack) : e.value.kind = "not a map"
    /\ collector' = "panicked"
    /\ UNCHANGED <<monitored, document, stack, outbox, closed, receiver, metrics, returned, sent>>

\* Faulty: the sender does not wait for the receiver.
SendWithoutWaiting ==
    /\ collector = "walk" /\ outbox # <<>>
    /\ receiver' = [pc |-> "append", metric |-> Head(outbox)]
    /\ sent' = Append(sent, Head(outbox))
    /\ outbox' = Tail(outbox)
    /\ UNCHANGED <<monitored, document, collector, stack, closed, metrics, returned>>

\* The channel is unbuffered: sender and receiver meet.
Send ==
    /\ collector = "walk" /\ outbox # <<>>
    /\ receiver.pc = "receive"
    /\ receiver' = [pc |-> "append", metric |-> Head(outbox)]
    /\ sent' = Append(sent, Head(outbox))
    /\ outbox' = Tail(outbox)
    /\ UNCHANGED <<monitored, document, collector, stack, closed, metrics, returned>>

IsNew == receiver.pc = "append" /\ receiver.metric.key \notin Keys(metrics)

\* Faulty: duplicates are appended too.
GatherAll ==
    /\ receiver.pc = "append" /\ collector # "panicked"
    /\ metrics' = Append(metrics, receiver.metric)
    /\ receiver' = [receiver EXCEPT !.pc = "receive"]
    /\ UNCHANGED <<monitored, document, collector, stack, outbox, closed, returned, sent>>

Gather ==
    /\ receiver.pc = "append" /\ collector # "panicked"
    /\ metrics' = IF IsNew THEN Append(metrics, receiver.metric) ELSE metrics
    /\ receiver' = [receiver EXCEPT !.pc = "receive"]
    /\ UNCHANGED <<monitored, document, collector, stack, outbox, closed, returned, sent>>

ReceiverEnds ==
    /\ receiver.pc = "receive" /\ closed
    /\ receiver' = [receiver EXCEPT !.pc = "ended"]
    /\ UNCHANGED <<monitored, document, collector, stack, outbox, closed, metrics, returned, sent>>

\* Faulty: the channel is not closed.
CloseForgotten ==
    /\ collector = "walk" /\ outbox = <<>> /\ stack = <<>>
    /\ collector' = "return"
    /\ UNCHANGED <<monitored, document, stack, outbox, closed, receiver, metrics, returned, sent>>

\* Faulty: the channel is closed after one round of the loop.
CloseEarly ==
    /\ collector = "walk" /\ outbox = <<>>
    /\ collector' = "return"
    /\ closed' = TRUE
    /\ UNCHANGED <<monitored, document, stack, outbox, receiver, metrics, returned, sent>>

Close ==
    /\ collector = "walk" /\ outbox = <<>> /\ stack = <<>>
    /\ collector' = "return"
    /\ closed' = TRUE
    /\ UNCHANGED <<monitored, document, stack, outbox, receiver, metrics, returned, sent>>

\* The list that CollectMetrics reads while the goroutine may be appending:
\* without the last metric, with it, or with its place but not its contents.
Readable ==
    {metrics} \cup (IF IsNew THEN {Append(metrics, m) : m \in {receiver.metric, Blank}} ELSE {})

Return ==
    /\ collector = "return"
    /\ returned' \in Readable
    /\ collector' = "returned"
    /\ UNCHANGED <<monitored, document, stack, outbox, closed, receiver, metrics, sent>>

Walk == processJSON \/ LoopEnds \/ Panic \/ Close \/ Return

Receive == Gather \/ ReceiverEnds

JSONNext == ScrapeFails \/ Scrape \/ Walk \/ Send \/ Receive

\* Both goroutines go on running; the endpoint may take its time to answer.
JSONFairness == WF_jsonVars(Walk) /\ WF_jsonVars(Send) /\ WF_jsonVars(Receive)

JSONSpec == JSONInit /\ [][JSONNext]_jsonVars /\ JSONFairness
-----------------------------------------------------------------------------
\* Nothing is sent through the closed channel, which would be a panic.
JSONTypeOK ==
    /\ monitored \in MonitoredSets
    /\ collector \in {"scrape", "failed", "walk", "panicked", "return", "returned"}
    /\ receiver.pc \in {"none", "receive", "append", "ended"}
    /\ closed \in BOOLEAN
    /\ closed => stack = <<>> /\ outbox = <<>>
    /\ ToSet(metrics) \subseteq ToSet(sent)
    /\ ToSet(returned) \subseteq ToSet(sent) \cup {Blank}

(* What CollectMetrics loses by not waiting for the goroutine is at most   *)
(* the last metric it sent; all the others it returns.                     *)
OnlyTheLastIsLost ==
    collector = "returned" =>
        Keys(SubSeq(sent, 1, Len(sent) - 1)) \subseteq Keys(returned)

(* A collection whose walk began comes to an end, and so does its          *)
(* goroutine: no collection leaves one behind (close(metricsChan)).        *)
CollectionEnds ==
    collector = "walk" ~> (collector = "panicked" \/ (collector = "returned" /\ receiver.pc = "ended"))

(* CollectMetrics "collects all metrics it find there, and returns those   *)
(* metrics".                                                               *)
AllAreReturned ==
    collector = "returned" => Keys(sent) \subseteq Keys(returned)
=============================================================================
