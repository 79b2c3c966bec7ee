--------------------------- MODULE MCCollection ---------------------------
(* Documents: maps in maps; arrays of maps with the same and with          *)
(* different names, of numbers, of mixed items; an empty one.              *)
(* Families with and without labels, of all kinds, that come and go.       *)
(* MBeans with scalar, composite and nested attributes.                    *)
EXTENDS Collection, JSONDocuments

N(n) == [kind |-> "number", value |-> n]
T(b) == [kind |-> "bool", value |-> b]
Numeral(n) == [kind |-> "numeral", value |-> n]
Str == [kind |-> "text"]
A(items) == [kind |-> "array", items |-> items]
O(fields) == [kind |-> "object", fields |-> fields]

MCDocuments == {
    <<>>,
    [a |-> N(1), b |-> Str, c |-> O([x |-> T(1), y |-> O([x |-> N(2), y |-> Numeral(3)])])],
    [a |-> A(<<O([x |-> N(1), y |-> N(2)]), O([x |-> N(3)]), O([x |-> O([x |-> N(4)])])>>), b |-> A(<<N(5), Numeral(6)>>)],
    [a |-> A(<<>>), b |-> A(<<N(1), T(0)>>), c |-> A(<<Str, N(1)>>)],
    [a |-> N(1), b |-> A(<<O([x |-> A(<<O([y |-> N(2)]), O([y |-> N(3)])>>)]), O([x |-> O([y |-> N(4)])])>>)],
    [a |-> N(1), b |-> A(<<O([x |-> N(2)]), N(3)>>)]}

MCPodEnv == [p1 |-> [name |-> "one"], p2 |-> [name |-> "two"]]
MCOSEnv == [node |-> "n"]
MCPrefix == <<Token("node"), TokenOr("cluster", "c"), Token("unset")>>
MCGlobalTags == [x |-> "global"]
MCLabelOrder == <<"1", "2", "array_stat", "k", "l", "label1", "label2", "label3", "label4", "t", "u">>

Name(s) == <<Text(s)>>
Metric0(name, id, type, tags) == [name |-> name, id |-> id, type |-> type, tags |-> tags]
Config(kind, at, metrics0) == [kind |-> kind, at |-> at, metrics |-> metrics0, tags |-> [e |-> "endpoint"]]

Sample(tags, n) == [tags |-> tags, value |-> n]
Labelled == [name |-> Name("reqs"), type |-> "counter",
             samples |-> <<Sample([k |-> "GET"], 1), Sample([k |-> "GET", l |-> "ok"], 2), Sample([k |-> "PUT"], 4)>>]
Plain == [name |-> Name("heap"), type |-> "gauge", samples |-> <<Sample(<<>>, 3)>>]
Summary == [name |-> Name("time"), type |-> "summary", samples |-> <<>>]
MCFamilies == {{Labelled, Plain, Summary}, {Plain}, {}}

PodName == Token("name")
PrometheusConfigs == {
    Config("prometheus", [p1 |-> "e1"], <<>>),
    Config("prometheus", [p1 |-> "e1"],
        <<Metric0(Name("reqs"), <<Text("r"), Token("k")>>, "", [k |-> "none", x |-> "mine"])>>),
    Config("prometheus", [p1 |-> "e1", p2 |-> "e2"],
        <<Metric0(Name("reqs"), <<Text("r"), PodName>>, "", [t |-> "tag"])>>),
    Config("prometheus", [p1 |-> "e1"],
        <<Metric0(Name("reqs"), <<PodName>>, "counter", <<>>), Metric0(Name("heap"), <<Text("h"), PodName>>, "gauge", <<>>)>>)}

Map(fields) == [kind |-> "map", fields |-> fields]
All == Name("d:t=*#*")
MCSpelling ==
    (Name("d:t=m#a") :> [pairs |-> <<<<"t", "m">>>>, rest |-> <<"a">>]) @@
    (Name("d:t=m#c#*") :> [pairs |-> <<<<"t", "m">>>>, rest |-> <<"c", "*">>]) @@
    (All :> [pairs |-> <<<<"t", "*">>>>, rest |-> <<"*">>]) @@
    (Name("d:t=*,u=*#c#i") :> [pairs |-> <<<<"t", "*">>, <<"u", "*">>>>, rest |-> <<"c", "i">>]) @@
    (Name("d:t=m") :> [pairs |-> <<<<"t", "m">>>>, rest |-> <<>>]) @@
    (Name("d:*#a") :> [pairs |-> <<<<"*">>>>, rest |-> <<"a">>]) @@
    (Name("d:t=1") :> [pairs |-> <<<<"t", "1">>>>, rest |-> <<>>]) @@
    (Name("d:t=1,u=2") :> [pairs |-> <<<<"t", "1">>, <<"u", "2">>>>, rest |-> <<>>]) @@
    (Name("d:t=3") :> [pairs |-> <<<<"t", "3">>>>, rest |-> <<>>]) @@
    (<<Text("d:t="), Text("one")>> :> [pairs |-> <<<<"t", "one">>>>, rest |-> <<"a">>]) @@
    (<<Text("d:t="), Text("two")>> :> [pairs |-> <<<<"t", "two">>>>, rest |-> <<"a">>])

Flat == Map(<<<<"i", N(11)>>, <<"j", Numeral(12)>>, <<"s", Str>>>>)
OwnBean == [n \in {<<Text("d:t="), Text("one")>>, <<Text("d:t="), Text("two")>>} |-> N(1)]
MCBeans == {
    OwnBean @@ (Name("d:t=m#a") :> T(1)) @@ (Name("d:t=m#c#*") :> Flat)
        @@ (All :> Map(<<<<Name("d:t=1"), Map(<<<<"a", N(13)>>, <<"c", Flat>>>>)>>, <<Name("d:t=3"), Map(<<<<"a", N(14)>>>>)>>>>))
        @@ (Name("d:t=*,u=*#c#i") :> Map(<<<<Name("d:t=1,u=2"), N(15)>>>>))
        @@ (Name("d:t=m") :> Map(<<<<"a", N(16)>>, <<"c", Flat>>>>)),
    OwnBean @@ (Name("d:t=m#a") :> Str) @@ (Name("d:t=m#c#*") :> Map(<<<<"a", N(1)>>, <<"b", Flat>>, <<"d", N(2)>>>>))
        @@ (All :> [kind |-> "error"])}

JolokiaConfigs == {
    Config("jolokia", [p1 |-> "e1"],
        <<Metric0(<<Text("d:t="), PodName>>, <<>>, "gauge", <<>>),
          Metric0(Name("d:t=m#a"), <<>>, "counter", <<>>),
          Metric0(Name("d:t=m#c#*"), <<Text("c"), Token("2")>>, "gauge", [t |-> "tag"]),
          Metric0(Name("d:*#a"), <<>>, "gauge", <<>>)>>),
    Config("jolokia", [p1 |-> "e1"],
        <<Metric0(All, <<>>, "gauge", <<>>), Metric0(Name("d:t=*,u=*#c#i"), <<Text("u"), Token("u")>>, "gauge", <<>>),
          Metric0(Name("d:t=m"), <<Text("m")>>, "gauge", <<>>)>>)}

SharedNames == {Config("jolokia", [p1 |-> "e1", p2 |-> "e2"], <<Metric0(<<Text("d:t="), PodName>>, <<Text("m")>>, "gauge", <<>>)>>)}

JSONConfigs == {
    Config("json", [p1 |-> "e1"], [i \in DOMAIN names |-> Metric0(Name(names[i]), <<>>, "gauge", <<>>)]) :
        names \in {<<>>, <<"a">>, <<"b", "c">>}}

MCConfigurations == JSONConfigs \cup PrometheusConfigs \cup JolokiaConfigs
=============================================================================
