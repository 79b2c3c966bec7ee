---------------------------- MODULE AgentConfig ----------------------------
(***************************************************************************)
(* What the agent makes of its environment and its configuration file      *)
(* (config/config.go, validateConfig in hawkular-openshift-agent.go), how  *)
(* it checks endpoints (collector/metrics_endpoint.go), how often it will  *)
(* collect from one (StartCollecting), and who may read what it emits      *)
(* (emitter/emitter_server.go).                                            *)
(*                                                                         *)
(* Durations are numbers of seconds.  Credentials are the set of their     *)
(* parts that are not empty.  A configuration file is a record of the      *)
(* settings it contains, an environment gives every setting a value.       *)
(***************************************************************************)
EXTENDS Integers, Sequences, FiniteSets

CONSTANTS NotGiven, Malformed,  \* numbers: an empty setting, one that does not parse
          NoURL                 \* an empty URL

FloorInterval == 5

\* A malformed duration is parsed as one that is below every bound.
ASSUME ConfigConstants == NotGiven \in Int /\ Malformed \in Int /\ Malformed < FloorInterval
-----------------------------------------------------------------------------
(* Loading.                                                                *)

GetDefaultString(value, default) == IF value = NotGiven THEN default ELSE value

GetDefaultInt(value, default) == IF value \in {NotGiven, Malformed} THEN default ELSE value

NewConfig(env) ==
    [ minimum    |-> GetDefaultString(env.minimum, 10),
      default    |-> GetDefaultString(env.default, 300),
      limit      |-> GetDefaultInt(env.limit, 50),
      logSize    |-> GetDefaultInt(env.logSize, 10),
      enabled    |-> [metrics |-> IF env.metrics = "" THEN "true" ELSE env.metrics,
                      status  |-> IF env.status = "" THEN "false" ELSE env.status],
      credentials |-> env.credentials,
      endpoints  |-> <<>> ]

\* What a YAML file says replaces the defaults, but for the credentials: there
\* each part does so for itself.
Unmarshal(file, env) ==
    LET conf == NewConfig(env) IN
    [ name \in DOMAIN conf |->
        IF name \notin DOMAIN file THEN conf[name]
        ELSE IF name = "credentials"
             THEN [use \in DOMAIN conf[name] |-> conf[name][use] \cup file[name][use]]
             ELSE file[name] ]
-----------------------------------------------------------------------------
(* Validation.                                                             *)

ValidateCredentials(parts) ==
    /\ "username" \in parts <=> "password" \in parts
    /\ ~({"username", "token"} \subseteq parts)

\* Faulty: the credentials are left to the collector to check.
ValidateEndpointOnly(e) ==
    /\ e.url # NoURL
    /\ e.type \in {"prometheus", "jolokia", "json"}
    /\ e.enabled \in {"", "true", "false"}
    /\ \A m \in e.metrics :
        m.named /\ (m.type \in {"gauge", "counter"} \/ (m.type = "" /\ e.type = "prometheus"))
    /\ e.interval # Malformed

ValidateEndpoint(e) ==
    /\ ValidateCredentials(e.credentials)
    /\ e.url # NoURL
    /\ e.type \in {"prometheus", "jolokia", "json"}
    /\ e.enabled \in {"", "true", "false"}
    /\ \A m \in e.metrics :
        m.named /\ (m.type \in {"gauge", "counter"} \/ (m.type = "" /\ e.type = "prometheus"))
    /\ e.interval # Malformed

\* Intervals that are empty get a default, and are not what NewConfig gives.
Completed(conf) ==
    [conf EXCEPT !.minimum = GetDefaultString(@, FloorInterval),
                 !.default = GetDefaultString(@, 300)]

\* Faulty: the minimum of the configuration has no lower bound of its own.
ValidDefault(conf) ==
    /\ conf.minimum # Malformed
    /\ conf.default >= conf.minimum

\* A malformed duration is below every bound.
ValidIntervals(conf) ==
    /\ conf.minimum >= FloorInterval
    /\ conf.default >= conf.minimum

Emits(conf, use) == conf.enabled[use] = "true"

\* Faulty: the token of the emitter's credentials is not refused.
EmitterAcceptsToken(conf, use) ==
    Emits(conf, use) => ValidateCredentials(conf.credentials[use])

EmitterIsValid(conf, use) ==
    Emits(conf, use) =>
        ValidateCredentials(conf.credentials[use]) /\ "token" \notin conf.credentials[use]

ValidateConfig(conf) ==
    /\ ValidIntervals(conf)
    /\ ValidateCredentials(conf.credentials.server)
    /\ \A i \in DOMAIN conf.endpoints : ValidateEndpoint(conf.endpoints[i])
    /\ conf.logSize \in 10..1000
    /\ EmitterIsValid(conf, "metrics") /\ EmitterIsValid(conf, "status")
    /\ conf.limit > 0
-----------------------------------------------------------------------------
(* Use.                                                                    *)

IsEnabled(e) == e.enabled \in {"", "true"}

\* How often StartCollecting ticks.
CollectionInterval(e, conf) ==
    LET wanted == IF e.interval \in {NotGiven, Malformed} THEN conf.default ELSE e.interval IN
    IF wanted < conf.minimum THEN conf.minimum ELSE wanted

\* The header a collector sends with its requests, or the error it ends with.
HttpAuthHeader(parts) ==
    CASE ~ValidateCredentials(parts) -> "error"
      [] ValidateCredentials(parts) /\ "token" \in parts -> "Bearer"
      [] ValidateCredentials(parts) /\ "username" \in parts -> "Basic"
      [] OTHER -> ""

\* How the emitter answers a request with no credentials ("none"), with those
\* of its configuration ("right") or with others ("wrong").  The handlers get
\* the user name and the password, and no token.
Reply(conf, use, request) ==
    LET guarded == conf.credentials[use] \cap {"username", "password"} # {} IN
    CASE ~Emits(conf, use) -> 404
      [] Emits(conf, use) /\ guarded /\ request = "none" -> 401
      [] Emits(conf, use) /\ guarded /\ request = "wrong" -> 403
      [] OTHER -> 200
=============================================================================
