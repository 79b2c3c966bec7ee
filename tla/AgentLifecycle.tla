-------------------------- MODULE AgentLifecycle --------------------------
(***************************************************************************)
(* The life of the agent (hawkular-openshift-agent.go): it loads and       *)
(* checks its configuration, starts the emitter, resolves the values of    *)
(* the Hawkular server's configuration, some of which may be in secrets    *)
(* that do not exist yet, starts the storage and the collection from the   *)
(* configured endpoints, and on a signal stops them and ends.              *)
(*                                                                         *)
(* Of a worker of the collector manager only the order of what it sends is *)
(* kept.  A poll for a secret takes one unit of time.                      *)
(***************************************************************************)
EXTENDS AgentConfig, MetricsStorage

CONSTANTS
    Starts,        \* environments and files the agent may be started with
    ServerValues,  \* how the six values of the server may be given
    Patience       \* polls before a secret is given up (5 minutes)

Parts == {"username", "password", "token"}
Uses == {"server", "metrics", "status"}

\* What an environment, a file and an endpoint in it are.  An endpoint that may
\* be collected from has a worker.
IsEnvironment(env) ==
    /\ env.minimum \in Int /\ env.default \in Int
    /\ env.credentials \in [Uses -> SUBSET Parts]

IsEndpoint(e) ==
    /\ e.interval \in Int /\ e.credentials \subseteq Parts
    /\ ValidateEndpoint(e) /\ IsEnabled(e) => <<e.type, e.url>> \in Senders

IsFile(file) ==
    /\ \A name \in {"minimum", "default"} \cap DOMAIN file : file[name] \in Int
    /\ "credentials" \in DOMAIN file => file.credentials \in [Uses -> SUBSET Parts]
    /\ "endpoints" \in DOMAIN file =>
        /\ DOMAIN file.endpoints = 1..Len(file.endpoints) /\ Len(file.endpoints) \in Nat
        /\ \A i \in DOMAIN file.endpoints : IsEndpoint(file.endpoints[i])

ASSUME StartConstants ==
    /\ \A start \in Starts : IsEnvironment(start.env) /\ IsFile(start.file)
    /\ Patience \in Nat

VARIABLES
    phase,     \* what main is doing
    conf,      \* Configuration
    values,    \* how each of url, CA file, user, password, token, tenant is given
    next,      \* the value, then the endpoint, that is next
    waited,    \* polls for the current secret
    tickers,   \* collector ID -> interval of its ticker
    stage      \* what the worker of each collector ID is doing

startVars == <<phase, conf, values, next, waited>>
vars == <<storageVars, startVars, tickers, stage>>

CaFile == 2
Values == 1..6
Defaults == [minimum |-> NotGiven, default |-> NotGiven, limit |-> NotGiven, logSize |-> NotGiven,
             metrics |-> "", status |-> "",
             credentials |-> [use \in Uses |-> {}]]

Init ==
    /\ StorageInit
    /\ phase = "load" /\ conf = NewConfig(Defaults)
    /\ values = <<>> /\ next = 1 /\ waited = 0
    /\ tickers = << >>
    /\ stage = [s \in Senders |-> "idle"]

Fatal == phase' = "fatal" /\ UNCHANGED <<conf, values, next, waited>>
-----------------------------------------------------------------------------
(* Start.  Every error on the way ends the agent (glog.Fatal).             *)

\* The file is read and parsed; without one, it is as if it were empty.
Load ==
    /\ phase = "load"
    /\ \/ /\ \E start \in Starts : conf' = Completed(Unmarshal(start.file, start.env))
          /\ phase' = IF ValidateConfig(conf') THEN "secrets" ELSE "fatal"
          /\ \E given \in ServerValues : values' = given
          /\ UNCHANGED <<next, waited>>
       \/ Fatal
    /\ UNCHANGED <<storageVars, tickers, stage>>

Resolving == phase = "secrets" /\ next \in Values
Resolved == next' = next + 1 /\ waited' = 0 /\ UNCHANGED <<phase, conf, values>>

TakeLiteral ==
    /\ Resolving /\ values[next] = "literal" /\ Resolved
    /\ UNCHANGED <<storageVars, tickers, stage>>

RejectSpecifier ==
    /\ Resolving /\ values[next] = "invalid" /\ Fatal
    /\ UNCHANGED <<storageVars, tickers, stage>>

\* The CA certificate is written to a file.
FetchSecret ==
    /\ Resolving /\ values[next] = "secret" /\ waited <= Patience
    /\ Resolved \/ (next = CaFile /\ Fatal)
    /\ UNCHANGED <<storageVars, tickers, stage>>

\* Faulty: the time is not looked at before a poll.
SecretMissingAnyTime ==
    /\ Resolving /\ values[next] = "secret"
    /\ waited' = waited + 1
    /\ UNCHANGED <<phase, conf, values, next>>
    /\ UNCHANGED <<storageVars, tickers, stage>>

\* Faulty: the deadline is set anew in the course of the polls.
SecretKeepsMissing ==
    /\ Resolving /\ values[next] = "secret"
    /\ waited' = (waited + 1) % (Patience + 1)
    /\ UNCHANGED <<phase, conf, values, next>>
    /\ UNCHANGED <<storageVars, tickers, stage>>

\* The secret, or its key, is not there or cannot be read.
SecretMissing ==
    /\ Resolving /\ values[next] = "secret" /\ waited <= Patience
    /\ waited' = waited + 1
    /\ UNCHANGED <<phase, conf, values, next>>
    /\ UNCHANGED <<storageVars, tickers, stage>>

GiveUp ==
    /\ Resolving /\ values[next] = "secret" /\ waited > Patience /\ Fatal
    /\ UNCHANGED <<storageVars, tickers, stage>>

\* The two clients are made, unless the URL is invalid; then storage starts.
StartStorage ==
    /\ phase = "secrets" /\ next \notin Values
    /\ \/ /\ phase' = "starting" /\ next' = 1 /\ UNCHANGED <<conf, values, waited>>
          /\ StartStoringMetrics
       \/ Fatal /\ UNCHANGED storageVars
    /\ UNCHANGED <<tickers, stage>>

\* StartCollectingEndpoints: the collector that has the ID already is stopped.
StartEndpoint ==
    /\ phase = "starting" /\ next \in DOMAIN conf.endpoints
    /\ LET e == conf.endpoints[next]
           id == <<e.type, e.url>>
       IN tickers' = [x \in (DOMAIN tickers \ {id}) \cup (IF IsEnabled(e) THEN {id} ELSE {}) |->
                        IF x = id THEN CollectionInterval(e, conf) ELSE tickers[x]]
    /\ next' = next + 1
    /\ UNCHANGED <<storageVars, phase, conf, values, waited, stage>>

Run ==
    /\ phase = "starting" /\ next \notin DOMAIN conf.endpoints
    /\ phase' = "running"
    /\ UNCHANGED <<storageVars, conf, values, next, waited, tickers, stage>>
-----------------------------------------------------------------------------
(* The workers: first the metrics are sent, then new definitions.          *)

Alive == phase \in {"starting", "running", "stopping", "closed"}

Collect(s) ==
    /\ Alive /\ s \in DOMAIN tickers /\ stage[s] = "idle"
    /\ stage' = [stage EXCEPT ![s] = "collected"]
    /\ UNCHANGED <<storageVars, startVars, tickers>>

Send(s) ==
    /\ Alive
    /\ \/ /\ stage[s] = "collected" /\ SendMetrics(s)
          /\ \E then \in {"idle", "declare"} : stage' = [stage EXCEPT ![s] = then]
       \/ /\ stage[s] = "declare" /\ SendDefinitions(s)
          /\ stage' = [stage EXCEPT ![s] = "idle"]
    /\ UNCHANGED <<startVars, tickers>>

\* A send on a closed channel ends the agent.
SendOnClosed(s) ==
    /\ Alive /\ ~open /\ stage[s] # "idle"
    /\ phase' = "panicked"
    /\ UNCHANGED <<storageVars, conf, values, next, waited, tickers, stage>>

Consume ==
    /\ Alive /\ (Definer \/ Writer)
    /\ UNCHANGED <<startVars, tickers, stage>>
-----------------------------------------------------------------------------
(* The end.                                                                *)

Signal ==
    /\ phase = "running" /\ phase' = "stopping"
    /\ UNCHANGED <<storageVars, conf, values, next, waited, tickers, stage>>

\* StopCollectingAll: a worker in the middle of a round goes on.
StopCollectors ==
    /\ phase = "stopping" /\ tickers # << >>
    /\ tickers' = << >>
    /\ UNCHANGED <<storageVars, startVars, stage>>

\* Faulty: storage is stopped before the collectors are.
StopStorageFirst ==
    /\ phase = "stopping"
    /\ StopStoringMetrics /\ phase' = "closed"
    /\ UNCHANGED <<conf, values, next, waited, tickers, stage>>

StopStorage ==
    /\ phase = "stopping" /\ tickers = << >>
    /\ StopStoringMetrics /\ phase' = "closed"
    /\ UNCHANGED <<conf, values, next, waited, tickers, stage>>

Exit ==
    /\ phase = "closed" /\ phase' = "exited"
    /\ UNCHANGED <<storageVars, conf, values, next, waited, tickers, stage>>

Main ==
    Load \/ TakeLiteral \/ RejectSpecifier \/ FetchSecret \/ SecretMissing \/ GiveUp \/ StartStorage
         \/ StartEndpoint \/ Run \/ StopCollectors \/ StopStorage \/ Exit

Next == Main \/ Signal \/ Consume \/ \E s \in Senders : Collect(s) \/ Send(s) \/ SendOnClosed(s)

\* main and the consumers go on as long as they can: each call to the server or
\* to Kubernetes ends, maybe with an error.
Fairness ==
    /\ WF_vars(Main)
    /\ WF_vars(Alive /\ Definer /\ UNCHANGED <<startVars, tickers, stage>>)
    /\ WF_vars(Alive /\ Writer /\ UNCHANGED <<startVars, tickers, stage>>)

Spec == Init /\ [][Next]_vars
LiveSpec == Spec /\ Fairness
-----------------------------------------------------------------------------
(* Properties.                                                             *)

TypeOK ==
    /\ phase \in {"load", "secrets", "starting", "running", "stopping", "closed",
                  "fatal", "panicked", "exited"}
    /\ next \in 1..7 \cup 1..(Len(conf.endpoints) + 1)
    /\ waited \in 0..(Patience + 1)
    /\ DOMAIN tickers \subseteq Senders
    /\ stage \in [Senders -> {"idle", "collected", "declare"}]
    /\ Len(defsChan) <= ChanCap /\ Len(metricsChan) <= ChanCap
    /\ definer.pc \in {"none", "receive", "look", "create", "delete", "ended"}
    /\ writer.pc \in {"none", "receive", "write", "ended"}
    /\ \A key \in DOMAIN server : key[2] \in Ids

\* Whatever the environment, the file and an endpoint say, no ticker is faster
\* than the minimum of the configuration, nor than five seconds
\* (validateConfig, StartCollecting).
TickersArePaced ==
    \A id \in DOMAIN tickers : tickers[id] >= conf.minimum /\ tickers[id] >= FloorInterval

\* Once the agent has accepted its configuration, any credentials that are set
\* for the emitter guard what it emits, and they are enough to read it
\* (validateConfig, MetricsHandler, StatusHandler).
EmitterIsGuarded ==
    phase \notin {"load", "fatal"} =>
        \A use \in {"metrics", "status"} :
            /\ conf.credentials[use] # {} =>
                Reply(conf, use, "none") # 200 /\ Reply(conf, use, "wrong") # 200
            /\ Emits(conf, use) => Reply(conf, use, "right") = 200

\* A ticker runs only for an endpoint from which its collector can make a
\* request, with the credentials it was given (ValidateEndpoint,
\* GetHttpAuthHeader).
TickersAreUsable ==
    \A id \in DOMAIN tickers : \E i \in DOMAIN conf.endpoints :
        LET e == conf.endpoints[i] IN
        /\ id = <<e.type, e.url>> /\ IsEnabled(e)
        /\ HttpAuthHeader(e.credentials) = IF e.credentials = {} THEN ""
                ELSE IF "token" \in e.credentials THEN "Bearer" ELSE "Basic"

\* A worker that still is in a round can meet the closed channels, but only
\* when the agent was told to end and no ticker of a configured endpoint starts
\* another round (main).  For the collectors of pods, which the consumer of node
\* events may start later still, see NodeDiscovery.
PanicsOnlyAtTheEnd == phase = "panicked" => tickers = << >>

\* The start is decided: secrets that never come end it, they do not hold it up
\* for ever (waitForSecret); and a signal ends the agent.
MainMovesOn == []<>(phase \in {"running", "fatal", "exited", "panicked"})

\* A server that fails, time and again, does not stop the queues: everything
\* that was sent is taken from its channel and handled, unless the agent ends.
QueuesMoveOn ==
    /\ []<>((defsChan = <<>> /\ definer.rest = <<>>) \/ ~Alive)
    /\ []<>(metricsChan = <<>> \/ ~Alive)
=============================================================================
