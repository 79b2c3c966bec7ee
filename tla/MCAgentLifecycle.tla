-------------------------- MODULE MCAgentLifecycle -------------------------
(* An instance of AgentLifecycle for TLC: each setting that a check is about *)
(* is wrong once, right once, and on the boundary, in the file or in the     *)
(* environment; two endpoints, of which one leaves the tenant to the agent.  *)
EXTENDS AgentLifecycle

MCNotGiven == -1
MCMalformed == -2

First == <<"json", "a">>
Second == <<"prometheus", "b">>
MCSenders == {First, Second}
MCTenantOf == [s \in MCSenders |-> IF s = First THEN "project" ELSE ""]

MCDefinitionSets == {
    << [id |-> "x", tags |-> [units |-> "ms", node |-> "n"]] >>,
    << [id |-> "x", tags |-> [units |-> "s"]], [id |-> "y", tags |-> << >>] >> }

JSON == [type |-> "json", url |-> "a", enabled |-> "", interval |-> 4, credentials |-> {"token"},
         metrics |-> {[named |-> TRUE, type |-> "gauge"]}]
Prometheus == [type |-> "prometheus", url |-> "b", enabled |-> "true", interval |-> NotGiven,
               credentials |-> {}, metrics |-> {[named |-> TRUE, type |-> ""]}]

Quick == [Defaults EXCEPT !.minimum = 5, !.default = 5, !.limit = Malformed, !.status = "true"]
NoCredentials == Defaults.credentials

MCStarts ==
    { [env |-> Quick, file |-> [endpoints |-> <<[JSON EXCEPT !.interval = 400], Prometheus, JSON>>]],
      [env |-> Defaults, file |-> [minimum |-> NotGiven,
            endpoints |-> <<Prometheus, [Prometheus EXCEPT !.enabled = "false"]>>]],
      [env |-> [Defaults EXCEPT !.minimum = 300, !.default = 5], file |-> << >>],
      [env |-> [Defaults EXCEPT !.credentials.metrics = {"username"}], file |-> << >>],
      [env |-> [Defaults EXCEPT !.credentials.metrics = {"username"}],
       file |-> [credentials |-> [NoCredentials EXCEPT !.metrics = {"password"}]]] }
    \cup
    { [env |-> Defaults, file |-> file] : file \in
        { [endpoints |-> <<e>>] : e \in {
            [JSON EXCEPT !.credentials = {"password"}],
            [JSON EXCEPT !.metrics = {[named |-> TRUE, type |-> ""]}],
            [JSON EXCEPT !.interval = Malformed],
            [JSON EXCEPT !.url = NoURL] } }
        \cup
        { [minimum |-> 4, endpoints |-> <<JSON>>],
          [limit |-> 0], [logSize |-> 9], [logSize |-> 1001],
          [credentials |-> [NoCredentials EXCEPT !.server = {"username", "password", "token"}]],
          [credentials |-> [NoCredentials EXCEPT !.metrics = {"password"}]],
          [credentials |-> [NoCredentials EXCEPT !.metrics = {"token"}]] } }

MCServerValues == {
    <<"literal", "secret", "secret", "literal", "literal", "literal">>,
    <<"literal", "literal", "literal", "literal", "literal", "invalid">> }
=============================================================================
