--------------------------- MODULE JSONDocuments ---------------------------
(***************************************************************************)
(* What the JSON collector makes of a document as a whole, against a       *)
(* recursive reading of the document.                                      *)
(***************************************************************************)
EXTENDS JSONCollector

\* What a reader of the README would expect of a value: a metric for each
\* number below it, labelled with the names that lead to it; of the items of an
\* array the first that has a metric counts.
RECURSIVE Found(_, _, _)
Found(id, labels, v) ==
    LET objects == Items(v, "object")
        found == [i \in DOMAIN objects |-> Found(id, labels, objects[i])]
    IN  CASE v.kind = "object" ->
                UNION {Found(id, Append(labels, name), v.fields[name]) : name \in DOMAIN v.fields}
          [] objects # <<>> ->
                UNION {{m \in found[i] : \A j \in 1 .. i - 1 : m.key \notin {x.key : x \in found[j]}} :
                          i \in DOMAIN objects}
          [] OTHER -> ToSet(Emits(Entry(id, labels, v)))

(* The goroutine ends up with exactly the metrics of the document that are *)
(* monitored, each once, the first where an array holds several with the   *)
(* same labels: the walk with its stack of calls, the channel, the check   *)
(* of duplicates (CollectMetrics, processJSON).                            *)
GathersWhatIsThere ==
    receiver.pc = "ended" =>
        /\ ToSet(metrics) = UNION {Found(name, <<>>, document[name]) :
                                        name \in {n \in DOMAIN document : Monitored(n)}}
        /\ Len(metrics) = Cardinality(Keys(metrics))
=============================================================================
