-------------------------- MODULE MCNodeDiscovery --------------------------
(* Versions of a configuration: two that share one of their endpoints, one *)
(* that refuses it, one that does not parse, one without the agent's entry.*)
EXTENDS NodeDiscovery

CONSTANTS v1, v2, v3, bad, bare, e1, e2, p1, p2

MCContent ==
    LET Valid(starts, refuses) == [entry |-> "valid", starts |-> starts, refuses |-> refuses]
        Useless(entry) == [entry |-> entry, starts |-> {}, refuses |-> {}]
    IN  [v \in Versions |->
            CASE v = v1 -> Valid({e1}, {})
              [] v = v2 -> Valid({e2}, {e1})
              [] v = v3 -> Valid({e1, e2}, {})
              [] v = bad -> Useless("invalid")
              [] v = bare -> Useless("missing")]

\* Nothing tells pods apart.
PodSymmetry == Permutations({p1, p2})
=============================================================================
