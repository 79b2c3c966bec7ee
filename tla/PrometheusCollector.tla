------------------------ MODULE PrometheusCollector ------------------------
(***************************************************************************)
(* The Prometheus collector                                                *)
(* (collector/impl/prometheus_metrics_collector.go).  A scrape yields      *)
(* metric families: records of a name, a type and the samples, each with   *)
(* its labels.  The collector scrapes once for the values and, when metric *)
(* definitions are needed, a second time for the details.                  *)
(***************************************************************************)
EXTENDS Integers, SequencesExt

\* Summaries, histograms and untyped families are skipped.
Supported == {"gauge", "counter"}

\* An empty map of names asks for all families.
ToCollect(metricNameMap, families) ==
    {f \in families : f.type \in Supported /\ (metricNameMap = {} \/ f.name \in metricNameMap)}

\* The labels of a sample become the tags of its data point.
ConvertFamily(f) == [name |-> f.name, type |-> f.type, data |-> f.samples]

\* The order of the families is that of a Go map; nothing depends on it.
PrometheusHeaders(metricNameMap, families) ==
    LET chosen == SetToSeq(ToCollect(metricNameMap, families))
    IN  [i \in DOMAIN chosen |-> ConvertFamily(chosen[i])]

PrometheusDetails(metricNames, families) ==
    {[name |-> f.name, type |-> f.type] :
        f \in {x \in families : x.name \in metricNames /\ x.type \in Supported}}
=============================================================================
