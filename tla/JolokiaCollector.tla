------------------------- MODULE JolokiaCollector -------------------------
(***************************************************************************)
(* One collection of the Jolokia collector                                 *)
(* (collector/impl/jolokia_metrics_collector.go and the package jolokia).  *)
(* A bulk request asks for the values of all metrics whose names are       *)
(* valid; what the answers hold is turned into data points, tagged with    *)
(* what the wildcards of the name stood for.                               *)
(*                                                                         *)
(* Values have a kind: "number", "bool" and "numeral" (a string that       *)
(* parses as a number) convert to a float, "text" does not, "map" has its  *)
(* fields as a sequence of pairs sorted by their keys.  An answer is a     *)
(* value or has kind "error".                                              *)
(***************************************************************************)
EXTENDS Integers, SequencesExt, Tags

CONSTANTS
    Spelling,  \* how a metric or MBean name is split at # , and = :
               \* [pairs |-> of the MBean, rest |-> attribute and path, if any]
    Nesting    \* bound: how deep maps are nested in a composite attribute

ASSUME JolokiaConstants == Nesting \in Nat \ {0}

\* The values that are n maps down in a value.
Below(v) ==
    LET below[n \in 0 .. Nesting + 2] ==
            IF n = 0 THEN {v}
            ELSE UNION {{f[2] : f \in ToSet(x.fields)} : x \in {y \in below[n - 1] : y.kind = "map"}}
    IN  below

\* MBeans, attributes and paths are maps around a composite attribute.
IsAnswer(v) ==
    v.kind # "error" =>
        \A n \in 0 .. Nesting + 2 : \A x \in Below(v)[n] :
            x.kind = "map" => x.fields \in Seq(ToSet(x.fields))

AllPairs(name) == ToSet(Spelling[name].pairs)

\* The keys of the MBean name with their values.
KeyValues(name) ==
    [k \in {pair[1] : pair \in AllPairs(name)} |-> (CHOOSE pair \in AllPairs(name) : pair[1] = k)[2]]

\* A pair without "=", like a lone "*", makes the name invalid.
NewMetricNameParts(name) ==
    LET rest == Spelling[name].rest
        valid == \A pair \in AllPairs(name) : Len(pair) = 2
    IN  [valid     |-> valid,
         keys      |-> IF valid THEN {pair[1] : pair \in {x \in AllPairs(name) : x[2] = "*"}} ELSE {},
         attribute |-> IF rest = <<>> THEN "*" ELSE rest[1],
         path      |-> IF Len(rest) < 2 THEN "" ELSE rest[2]]

\* What stays in allRequestedMetricNameParts when the name is invalid.
ZeroParts == [valid |-> FALSE, keys |-> {}, attribute |-> "", path |-> ""]

PartsOf(name) == IF NewMetricNameParts(name).valid THEN NewMetricNameParts(name) ELSE ZeroParts

IsAllAttributes(parts) == parts.attribute = "*"
IsAllPaths(parts) == parts.path = "*" \/ IsAllAttributes(parts)
IsMBeanQuery(parts) == parts.keys # {}
-----------------------------------------------------------------------------
IsFloat(v) == v.kind \in {"number", "numeral", "bool"}

Point(tags, v) == [tags |-> tags, value |-> v.value]

\* Faulty: points that have a tag keep it alone.
PutTagsOnce(points, tags) ==
    [i \in DOMAIN points |-> [points[i] EXCEPT !.tags = IF @ = <<>> THEN tags ELSE @]]

PutTags(points, tags) == [i \in DOMAIN points |-> [points[i] EXCEPT !.tags = Over(tags, @)]]

\* The place of the last map in a map, or 0.
LastMap(v) == Max({0} \cup {i \in DOMAIN v.fields : v.fields[i][2].kind = "map"})

\* The metrics of the fields behind it.
FieldMetrics(parts, v) ==
    FlattenSeq([i \in DOMAIN v.fields |->
        IF i > LastMap(v) /\ IsFloat(v.fields[i][2])
        THEN <<Point(IF IsAllPaths(parts) THEN Tag("2", v.fields[i][1]) ELSE <<>>, v.fields[i][2])>>
        ELSE <<>>])

\* The metrics of a map in the map replace those found before it: what counts is
\* the last map, the last map in that one, and so on.
processSingleCompositeAttribute(parts, v) ==
    LET maps[n \in 0 .. Nesting] ==
            IF n = 0 THEN v
            ELSE IF LastMap(maps[n - 1]) = 0 THEN [kind |-> "map", fields |-> <<>>]
            ELSE maps[n - 1].fields[LastMap(maps[n - 1])][2]
        metrics[n \in 0 .. Nesting] ==
            LET w == maps[Nesting - n]
            IN  (IF LastMap(w) = 0 \/ n = 0 THEN <<>>
                 ELSE PutTags(metrics[n - 1], Tag("1", w.fields[LastMap(w)][1]))) \o FieldMetrics(parts, w)
    IN  metrics[Nesting]

processSingleAttribute(parts, v) ==
    CASE v.kind = "map" -> processSingleCompositeAttribute(parts, v)
      [] IsFloat(v) -> <<Point(<<>>, v)>>
      [] OTHER -> <<>>

processSingleMBean(parts, v) ==
    IF ~IsAllAttributes(parts) THEN processSingleAttribute(parts, v)
    ELSE IF v.kind # "map" THEN <<>>
    ELSE FlattenSeq([i \in DOMAIN v.fields |->
            PutTags(processSingleAttribute(parts, v.fields[i][2]), Tag("1", v.fields[i][1]))])

\* The wildcard keys with their values in the MBean's name.
WildcardTags(parts, bean) ==
    IF NewMetricNameParts(bean).valid
    THEN [k \in parts.keys \cap DOMAIN KeyValues(bean) |-> KeyValues(bean)[k]] ELSE <<>>

processMultipleMBeans(parts, v) ==
    IF v.kind # "map" THEN <<>>
    ELSE FlattenSeq([i \in DOMAIN v.fields |->
            PutTags(processSingleMBean(parts, v.fields[i][2]), WildcardTags(parts, v.fields[i][1]))])

ProcessJolokiaResponseValueObject(parts, v) ==
    IF IsMBeanQuery(parts) THEN processMultipleMBeans(parts, v) ELSE processSingleMBean(parts, v)

\* The answers of an endpoint to a bulk request: beans maps names to answers.
SendRequests(names, beans) ==
    [i \in DOMAIN names |-> IF names[i] \in DOMAIN beans THEN beans[names[i]] ELSE [kind |-> "error"]]

\* Invalid names are not asked for.
Requests(metrics) ==
    FlattenSeq([i \in DOMAIN metrics |->
        IF NewMetricNameParts(metrics[i].name).valid THEN <<metrics[i].name>> ELSE <<>>])

\* The headers of all answers; the i-th answer is taken for the i-th metric.
JolokiaHeaders(metrics, beans) ==
    LET responses == SendRequests(Requests(metrics), beans)
        points(i) == IF responses[i].kind = "error" THEN <<>>
                     ELSE ProcessJolokiaResponseValueObject(PartsOf(metrics[i].name), responses[i])
    IN  FlattenSeq([i \in DOMAIN responses |->
            [j \in DOMAIN points(i) |->
                [name |-> metrics[i].name, type |-> metrics[i].type, data |-> <<points(i)[j]>>]]])
-----------------------------------------------------------------------------
\* What the README promises for a name: its numbers, each tagged with what the
\* wildcards stand for: the keys of the MBean's name, "1" for the attribute,
\* "2" for the path.
Leaves(parts, v) ==
    LET fields(x) == IF x.kind = "map" THEN ToSet(x.fields) ELSE {}
        beans == IF IsMBeanQuery(parts)
                 THEN {<<WildcardTags(parts, f[1]), f[2]>> : f \in fields(v)} ELSE {<< <<>>, v>>}
        attributes == IF IsAllAttributes(parts)
                      THEN UNION {{<<Over(Tag("1", f[1]), b[1]), f[2]>> : f \in fields(b[2])} : b \in beans}
                      ELSE beans
        paths(a) == IF a[2].kind = "map"
                    THEN {<<IF IsAllPaths(parts) THEN Over(Tag("2", f[1]), a[1]) ELSE a[1], f[2]>> : f \in fields(a[2])}
                    ELSE {a}
    IN  {Point(x[1], x[2]) : x \in {y \in UNION {paths(a) : a \in attributes} : IsFloat(y[2])}}

\* Composite attributes hold no maps: there are none below those of MBeans and
\* of attributes.
IsFlat(parts, v) ==
    LET depth == 1 + (IF IsMBeanQuery(parts) THEN 1 ELSE 0) + (IF IsAllAttributes(parts) THEN 1 ELSE 0)
    IN  \A x \in Below(v)[depth] : x.kind # "map"
=============================================================================
