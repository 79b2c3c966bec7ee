--------------------------- MODULE NodeDiscovery ---------------------------
(***************************************************************************)
(* Discovery of what to collect on the node (k8s/discovery.go,             *)
(* k8s/node_event_consumer.go and the inventories), for the pods of one    *)
(* namespace.                                                              *)
(*                                                                         *)
(* One goroutine watches the pods of the node, and while the namespace has *)
(* pods another one watches its config maps.  Both keep their inventory    *)
(* and send node events, with the pod and the configuration as they found  *)
(* them, over an unbuffered channel to the consumer, which starts and stops*)
(* collectors.  Nothing orders the two goroutines.                         *)
(*                                                                         *)
(* The cluster is external: it adds, modifies and deletes pods and config  *)
(* maps, and a watch delivers these changes in order, beginning with an    *)
(* ADDED event for everything that exists.                                 *)
(***************************************************************************)
EXTENDS Integers, FiniteSets, SequencesExt

CONSTANTS
    Pods,            \* pod identifiers; they contain the UID and never recur
    Names,           \* names of config maps
    Versions,        \* contents of config maps
    Endpoints,       \* endpoints that configurations list
    Content,         \* version -> its entry, and the endpoints to start or to refuse
    Changes,         \* kinds of changes the cluster makes
    MaxChanges,      \* bound: changes of the cluster
    MaxTimeouts,     \* bound: watches that time out
    ShutsDown,       \* whether main may shut the agent down
    Watchers         \* bound: one per call of start for the config maps

None == "none"                  \* nil; no such object
Unknown == [volume |-> "unknown"] \* a pod before its life
Gone == [volume |-> "gone"]       \* and after

ASSUME DiscoveryConstants ==
    /\ Content \in [Versions -> [entry : {"valid", "invalid", "missing"},
                                 starts : SUBSET Endpoints, refuses : SUBSET Endpoints]]
    /\ Changes \subseteq {"pod added", "pod modified", "pod deleted",
                          "config added", "config modified", "config deleted"}
    /\ MaxChanges \in Nat /\ MaxTimeouts \in Nat /\ ShutsDown \in BOOLEAN

VARIABLES
    pods,          \* the cluster: pod -> its state, Unknown before its life and Gone after
    configs,       \* the cluster: config map -> its content, None if there is none
    changes,       \* changes and timeouts so far
    podStream,     \* the watch of pods: open or not, and the events it has
    discovered,    \* Inventory.Pods: pod -> its state as of the last event
    podHandler,    \* the goroutine that watches pods
    entries,       \* Inventory.ConfigMaps: name -> content, None if there is no entry
    watching,      \* ConfigMapWatchers: the watcher of the namespace, in a set
    cmHandler,     \* watcher -> its goroutine, with its watch
    consumer,      \* the node event the consumer works on
    CollectorIds,  \* pod -> endpoints registered for it
    collecting,    \* pod -> endpoint -> version it is collected by, or None
    main           \* how far main is with the shutdown

cluster == <<pods, configs, changes>>
inventory == <<discovered, entries, watching>>
collection == <<consumer, CollectorIds, collecting>>
discoveryVars == <<cluster, podStream, podHandler, cmHandler, inventory, collection>>
vars == <<discoveryVars, main>>

\* Of a pod matters which config map its volume names, and whether it has an
\* IP address yet.
PodStates == [volume : Names \cup {None}, hasIP : BOOLEAN]

\* The contents of which UnmarshalConfigMapEntry makes an entry.
Usable == {v \in Versions : Content[v].entry = "valid"}

Closed == [open |-> FALSE, events |-> <<>>]

Present == {p \in Pods : pods[p] \notin {Unknown, Gone}}

\* The streams with which a watch can begin: all that exists, in some order.
Listing(existing, state) ==
    {[open |-> TRUE, events |-> [i \in DOMAIN s |-> [type |-> "ADDED", of |-> s[i], state |-> state[s[i]]]]] :
        s \in SetToSeqs(existing)}

Deliver(stream, e) == IF stream.open THEN [stream EXCEPT !.events = Append(@, e)] ELSE stream
Received(stream) == [stream EXCEPT !.events = Tail(@)]

Idle == [pc |-> "idle"]
Unborn == [pc |-> "unborn", abort |-> FALSE, stream |-> Closed]

Init ==
    /\ pods = [p \in Pods |-> Unknown]
    /\ configs = [n \in Names |-> None]
    /\ changes = [made |-> 0, timeouts |-> 0]
    /\ podStream = [open |-> TRUE, events |-> <<>>]
    /\ discovered = [p \in {} |-> None]
    /\ podHandler = Idle
    /\ entries = [n \in Names |-> None]
    /\ watching = {}
    /\ cmHandler = [w \in Watchers |-> Unborn]
    /\ consumer = Idle
    /\ CollectorIds = [p \in Pods |-> {}]
    /\ collecting = [p \in Pods |-> [e \in Endpoints |-> None]]
    /\ main = "running"
-----------------------------------------------------------------------------
(* The cluster and its watches (external).                                 *)

MayChange(kind) ==
    /\ kind \in Changes
    /\ changes.made < MaxChanges
    /\ changes' = [changes EXCEPT !.made = @ + 1]

PodChanges(p, type, new, seen) ==
    /\ pods' = [pods EXCEPT ![p] = new]
    /\ podStream' = Deliver(podStream, [type |-> type, of |-> p, state |-> seen])
    /\ UNCHANGED <<configs, podHandler, cmHandler, inventory, collection>>

ChangePod ==
    \/ /\ MayChange("pod added")
       /\ \E p \in Pods, new \in PodStates : pods[p] = Unknown /\ PodChanges(p, "ADDED", new, new)
    \/ /\ MayChange("pod modified")
       /\ \E p \in Present, new \in PodStates : PodChanges(p, "MODIFIED", new, new)
    \/ /\ MayChange("pod deleted")
       /\ \E p \in Present : PodChanges(p, "DELETED", Gone, pods[p])

ConfigChanges(n, type, new, seen) ==
    /\ configs' = [configs EXCEPT ![n] = new]
    /\ cmHandler' = [w \in Watchers |-> [cmHandler[w] EXCEPT !.stream =
            Deliver(@, [type |-> type, of |-> n, state |-> seen])]]
    /\ UNCHANGED <<pods, podStream, podHandler, inventory, collection>>

ChangeConfig ==
    \/ /\ MayChange("config added")
       /\ \E n \in Names, v \in Versions : configs[n] = None /\ ConfigChanges(n, "ADDED", v, v)
    \/ /\ MayChange("config modified")
       /\ \E n \in Names, v \in Versions : configs[n] \notin {None, v} /\ ConfigChanges(n, "MODIFIED", v, v)
    \/ /\ MayChange("config deleted")
       /\ \E n \in Names : configs[n] # None /\ ConfigChanges(n, "DELETED", None, configs[n])

\* Watches time out; what they already have is still read.
MayTimeOut ==
    /\ changes.timeouts < MaxTimeouts
    /\ changes' = [changes EXCEPT !.timeouts = @ + 1]

TimeOut ==
    /\ MayTimeOut
    /\ \/ /\ podStream.open
          /\ podStream' = [podStream EXCEPT !.open = FALSE]
          /\ UNCHANGED cmHandler
       \/ \E w \in Watchers :
          /\ cmHandler[w].stream.open
          /\ cmHandler' = [cmHandler EXCEPT ![w].stream.open = FALSE]
          /\ UNCHANGED podStream
    /\ UNCHANGED <<pods, configs, podHandler, inventory, collection>>
-----------------------------------------------------------------------------
(* The goroutine that watches the pods.                                    *)

\* watchProcessor: when a watch has ended a new one is created at once, unless
\* the goroutine is told to stop before it looks.
PodWatchEnds ==
    /\ podHandler = Idle /\ podStream = Closed /\ main = "running"
    /\ podHandler' = [pc |-> "create"]
    /\ UNCHANGED <<cluster, podStream, cmHandler, inventory, collection>>

CreatePodWatch ==
    /\ podHandler.pc = "create" /\ podHandler' = Idle
    /\ podStream' \in Listing(Present, pods)
    /\ UNCHANGED <<cluster, cmHandler, inventory, collection>>

\* An event changes the inventory first.
PodEvent ==
    /\ podHandler = Idle /\ podStream.events # <<>>
    /\ LET e == Head(podStream.events)
       IN  /\ discovered' =
                IF e.type = "DELETED" THEN [p \in DOMAIN discovered \ {e.of} |-> discovered[p]]
                ELSE [p \in DOMAIN discovered \cup {e.of} |-> IF p = e.of THEN e.state ELSE discovered[p]]
           /\ podHandler' = [pc |-> "lookup", type |-> e.type, pod |-> e.of, state |-> e.state, config |-> None]
    /\ podStream' = Received(podStream)
    /\ UNCHANGED <<cluster, cmHandler, entries, watching, collection>>

\* sendNodeEventDueToChangedPod finds the configuration ...
LookUpConfig ==
    /\ podHandler.pc = "lookup"
    /\ podHandler' = [podHandler EXCEPT !.pc = "send",
            !.config = IF podHandler.state.volume = None THEN None ELSE entries[podHandler.state.volume]]
    /\ UNCHANGED <<cluster, podStream, cmHandler, inventory, collection>>

Stopping == main \in {"closed", "stopAll", "stopped"}

\* Faulty: events that wait in the channel are consumed after it is closed.
MayReceiveBuffered == consumer = Idle

\* The channel has no buffer.  Once it is closed the consumer gets no more.
MayReceive == consumer = Idle /\ ~Stopping

\* ... and blocks until the consumer takes the event, with what it has found.
SendPodEvent ==
    /\ podHandler.pc = "send" /\ MayReceive
    /\ consumer' = [pc |-> "busy", type |-> podHandler.type, source |-> "pod", pod |-> podHandler.pod,
                    state |-> podHandler.state, config |-> podHandler.config]
    /\ podHandler' = [podHandler EXCEPT !.pc = "sent"]
    /\ UNCHANGED <<cluster, podStream, cmHandler, inventory, CollectorIds, collecting>>

StartWatcher ==
    \E w \in Watchers :
        /\ cmHandler[w] = Unborn
        /\ watching' = watching \cup {w}
        /\ cmHandler' = [cmHandler EXCEPT ![w].pc = "check"]

\* Faulty: a watcher is started for every pod.
WatchConfigsAgain ==
    /\ podHandler.pc = "sent" /\ podHandler.type # "DELETED"
    /\ podHandler' = Idle
    /\ StartWatcher
    /\ UNCHANGED <<cluster, podStream, discovered, entries, collection>>

\* watchConfigMap: nothing if the namespace is watched.
WatchConfigs ==
    /\ podHandler.pc = "sent" /\ podHandler.type # "DELETED"
    /\ podHandler' = Idle
    /\ IF watching # {} THEN UNCHANGED <<watching, cmHandler>> ELSE StartWatcher
    /\ UNCHANGED <<cluster, podStream, discovered, entries, collection>>

\* A watch that is stopped still yields the event it has decoded, if any.
Stopped(stream) ==
    {[open |-> FALSE, events |-> SubSeq(stream.events, 1, k)] : k \in {0, 1} \cap 0..Len(stream.events)}

StopWatcher ==
    IF watching = {} THEN UNCHANGED cmHandler
    ELSE \E w \in watching : \E s \in Stopped(cmHandler[w].stream) :
            cmHandler' = [cmHandler EXCEPT ![w].abort = TRUE, ![w].stream = s]

\* The watcher stops and goes, and with it what is known of the namespace.
unwatchConfigMap ==
    /\ StopWatcher
    /\ watching' = {} /\ entries' = [n \in Names |-> None]

\* Faulty: the watcher that is stopped stays in ConfigMapWatchers.
UnwatchConfigsKeeping ==
    /\ podHandler.pc = "sent" /\ podHandler.type = "DELETED"
    /\ podHandler' = Idle
    /\ IF DOMAIN discovered # {} THEN UNCHANGED <<cmHandler, entries>>
       ELSE StopWatcher /\ entries' = [n \in Names |-> None]
    /\ UNCHANGED <<cluster, podStream, discovered, watching, collection>>

\* With the last pod of the namespace gone, whatever the watcher is doing.
UnwatchConfigs ==
    /\ podHandler.pc = "sent" /\ podHandler.type = "DELETED"
    /\ podHandler' = Idle
    /\ IF DOMAIN discovered # {} THEN UNCHANGED <<watching, cmHandler, entries>>
       ELSE unwatchConfigMap
    /\ UNCHANGED <<cluster, podStream, discovered, collection>>
-----------------------------------------------------------------------------
(* The goroutines that watch the config maps.                              *)

Handler(w) == cmHandler[w]

\* watchProcessor.start: the loop ends when it is told to abort ...
CheckAbort(w) ==
    /\ Handler(w).pc = "check"
    /\ cmHandler' = [cmHandler EXCEPT ![w].pc = IF Handler(w).abort THEN "exited" ELSE "create"]
    /\ UNCHANGED <<cluster, podStream, podHandler, inventory, collection>>

\* ... and creates a watch, even if it has been told so since.
CreateConfigWatch(w) ==
    /\ Handler(w).pc = "create"
    /\ \E s \in Listing({n \in Names : configs[n] # None}, configs) :
        cmHandler' = [cmHandler EXCEPT ![w].pc = "watch", ![w].stream = s]
    /\ UNCHANGED <<cluster, podStream, podHandler, inventory, collection>>

ConfigWatchEnds(w) ==
    /\ Handler(w).pc = "watch" /\ Handler(w).stream = Closed
    /\ cmHandler' = [cmHandler EXCEPT ![w].pc = "check"]
    /\ UNCHANGED <<cluster, podStream, podHandler, inventory, collection>>

\* Without the entry of the agent every event is ignored, with one that does not
\* parse all but the deletion.
Ignored(e) ==
    \/ Content[e.state].entry = "missing"
    \/ Content[e.state].entry = "invalid" /\ e.type # "DELETED"

IgnoreConfigEvent(w) ==
    /\ Handler(w).pc = "watch" /\ Handler(w).stream.events # <<>>
    /\ Ignored(Head(Handler(w).stream.events))
    /\ cmHandler' = [cmHandler EXCEPT ![w].stream = Received(@)]
    /\ UNCHANGED <<cluster, podStream, podHandler, inventory, collection>>

\* Others change the inventory, a modified entry being removed first and added
\* again, and then every pod that uses the config map is told.
ConfigEvent(w) ==
    /\ Handler(w).pc = "watch" /\ Handler(w).stream.events # <<>>
    /\ LET e == Head(Handler(w).stream.events)
           new == IF e.type = "DELETED" THEN None ELSE e.state
       IN  /\ ~Ignored(e)
           /\ entries' = [entries EXCEPT ![e.of] = IF e.type = "ADDED" THEN e.state ELSE None]
           /\ cmHandler' = [cmHandler EXCEPT ![w] =
                [pc |-> IF e.type = "MODIFIED" THEN "add" ELSE "iterate",
                 abort |-> @.abort, stream |-> Received(@.stream),
                 type |-> e.type, name |-> e.of, config |-> new,
                 visited |-> {}, start |-> DOMAIN discovered]]
    /\ UNCHANGED <<cluster, podStream, podHandler, discovered, watching, collection>>

AddModified(w) ==
    /\ Handler(w).pc = "add"
    /\ entries' = [entries EXCEPT ![Handler(w).name] = Handler(w).config]
    /\ cmHandler' = [cmHandler EXCEPT ![w].pc = "iterate", ![w].start = DOMAIN discovered]
    /\ UNCHANGED <<cluster, podStream, podHandler, discovered, watching, collection>>

\* Pods are visited in the order of a Go map, which can change under it: visited
\* are those there were, and perhaps some of those that come.
VisitPod(w) ==
    /\ Handler(w).pc = "iterate"
    /\ \E p \in DOMAIN discovered \ Handler(w).visited :
        cmHandler' = [cmHandler EXCEPT ![w] =
            IF discovered[p].volume = Handler(w).name
            THEN [pc |-> "send", abort |-> @.abort, stream |-> @.stream,
                  type |-> @.type, name |-> @.name, config |-> @.config,
                  visited |-> @.visited \cup {p}, start |-> @.start,
                  pod |-> p, state |-> discovered[p]]
            ELSE [Handler(w) EXCEPT !.visited = Handler(w).visited \cup {p}]]
    /\ UNCHANGED <<cluster, podStream, podHandler, inventory, collection>>

SendConfigEvent(w) ==
    /\ Handler(w).pc = "send" /\ MayReceive
    /\ consumer' = [pc |-> "busy", type |-> Handler(w).type, source |-> "config", pod |-> Handler(w).pod,
                    state |-> Handler(w).state, config |-> Handler(w).config]
    /\ cmHandler' = [cmHandler EXCEPT ![w] =
            [pc |-> "iterate", abort |-> @.abort, stream |-> @.stream,
             type |-> @.type, name |-> @.name, config |-> @.config,
             visited |-> @.visited, start |-> @.start]]
    /\ UNCHANGED <<cluster, podStream, podHandler, inventory, CollectorIds, collecting>>

\* Faulty: the iteration ends with the first pod that was told.
IterationEndsEarly(w) ==
    /\ Handler(w).pc = "iterate"
    /\ \/ Handler(w).visited # {}
       \/ Handler(w).start \cap DOMAIN discovered = {}
    /\ cmHandler' = [cmHandler EXCEPT ![w] = [pc |-> "watch", abort |-> @.abort, stream |-> @.stream]]
    /\ UNCHANGED <<cluster, podStream, podHandler, inventory, collection>>

IterationEnds(w) ==
    /\ Handler(w).pc = "iterate"
    /\ Handler(w).start \cap DOMAIN discovered \subseteq Handler(w).visited
    /\ cmHandler' = [cmHandler EXCEPT ![w] = [pc |-> "watch", abort |-> @.abort, stream |-> @.stream]]
    /\ UNCHANGED <<cluster, podStream, podHandler, inventory, collection>>
-----------------------------------------------------------------------------
(* The consumer of node events.                                            *)

\* Faulty: the endpoints started last replace those registered before.
StartedReplacing(ids, p, endpoints) == [ids EXCEPT ![p] = IF endpoints = {} THEN @ ELSE endpoints]

\* startCollecting registers each endpoint of the configuration with its pod.
Started(ids, p, endpoints) == [ids EXCEPT ![p] = @ \cup endpoints]

\* consumeNodeEvents.  All but an ADDED event first stop what is registered for
\* the pod; all but a DELETED event then start what the configuration lists.
\* Without an IP address no endpoint has a URL and nothing is started.  An
\* endpoint that is refused (disabled, invalid, without its credentials) is
\* registered; NotCollecting does not stop what is collected under its id.  Main
\* may be stopping collectors meanwhile, also some that were just started.
Consume ==
    LET p         == consumer.pod
        stops     == consumer.type # "ADDED"
        starting  == consumer.type # "DELETED" /\ consumer.config # None /\ consumer.state.hasIP
        endpoints == IF starting THEN Content[consumer.config].starts ELSE {}
        refused   == IF starting THEN Content[consumer.config].refuses ELSE {}
        left      == IF stops THEN [CollectorIds EXCEPT ![p] = {}] ELSE CollectorIds
    IN  /\ consumer # Idle
        /\ \E stay \in IF Stopping THEN SUBSET endpoints ELSE {endpoints} :
            /\ CollectorIds' = Started(left, p, stay \cup refused)
            /\ collecting' = [collecting EXCEPT ![p] = [e \in Endpoints |->
                    IF e \in stay THEN consumer.config
                    ELSE IF stops /\ e \in CollectorIds[p] THEN None ELSE collecting[p][e]]]
        /\ consumer' = Idle
        /\ UNCHANGED <<cluster, podStream, podHandler, cmHandler, inventory>>

-----------------------------------------------------------------------------
(* The shutdown: NodeEventConsumer.Stop with Discovery.stop, and then       *)
(* StopCollectingAll.  Nobody waits for the goroutines.                     *)

StopPodWatch ==
    /\ ShutsDown /\ main = "running" /\ main' = "unwatch"
    /\ podStream' \in Stopped(podStream)
    /\ UNCHANGED <<cluster, podHandler, cmHandler, inventory, collection>>

StopConfigWatches ==
    /\ main = "unwatch" /\ main' = "close"
    /\ unwatchConfigMap
    /\ UNCHANGED <<cluster, podStream, podHandler, discovered, collection>>

CloseChannel ==
    /\ main = "close" /\ main' = "closed"
    /\ UNCHANGED discoveryVars

\* A goroutine that waits to send, or comes to it, ends the agent.
SendOnClosed ==
    /\ Stopping
    /\ podHandler.pc = "send" \/ \E w \in Watchers : Handler(w).pc = "send"
    /\ main' = "panicked"
    /\ UNCHANGED discoveryVars

\* The pods of the map one after the other; the consumer can be in the way of
\* one of them, before or after this or, with Consume, in the middle.
StopCollectors ==
    /\ main = "closed" /\ main' = "stopAll"
    /\ collecting' = [p \in Pods |-> [e \in Endpoints |->
            IF e \in CollectorIds[p] THEN None ELSE collecting[p][e]]]
    /\ CollectorIds' = [p \in Pods |-> {}]
    /\ UNCHANGED <<cluster, podStream, podHandler, cmHandler, inventory, consumer>>

StopCollectingAll ==
    /\ main = "stopAll" /\ main' = "stopped"
    /\ collecting' = [p \in Pods |-> [e \in Endpoints |-> None]]
    /\ UNCHANGED <<cluster, podStream, podHandler, cmHandler, inventory, consumer, CollectorIds>>

Shutdown ==
    \/ StopPodWatch \/ StopConfigWatches \/ CloseChannel \/ SendOnClosed
    \/ StopCollectors \/ StopCollectingAll
-----------------------------------------------------------------------------
PodHandlerStep == PodWatchEnds \/ CreatePodWatch \/ PodEvent \/ LookUpConfig \/ SendPodEvent \/ WatchConfigs \/ UnwatchConfigs
ConfigHandlerStep(w) ==
    \/ CheckAbort(w) \/ CreateConfigWatch(w) \/ ConfigWatchEnds(w)
    \/ IgnoreConfigEvent(w) \/ ConfigEvent(w) \/ AddModified(w)
    \/ VisitPod(w) \/ SendConfigEvent(w) \/ IterationEnds(w)

Alive(A) == main # "panicked" /\ A /\ UNCHANGED main

Next ==
    \/ Alive(ChangePod) \/ Alive(ChangeConfig) \/ Alive(TimeOut)
    \/ Alive(PodHandlerStep)
    \/ \E w \in Watchers : Alive(ConfigHandlerStep(w))
    \/ Alive(Consume)
    \/ Shutdown

\* Goroutines run on, and a sender is served in the end: senders that wait on
\* a channel are queued.  The cluster need not change, a watch need not time out
\* and the agent need not be told to stop.
Fairness ==
    /\ SF_vars(Alive(PodHandlerStep))
    /\ \A w \in Watchers : SF_vars(Alive(ConfigHandlerStep(w)))
    /\ WF_vars(Alive(Consume))

Spec == Init /\ [][Next]_vars /\ Fairness
-----------------------------------------------------------------------------
\* Types, and at most one watcher of the namespace.
TypeOK ==
    /\ DOMAIN discovered \subseteq Pods
    /\ \A p \in DOMAIN discovered : discovered[p] \in PodStates
    /\ entries \in [Names -> Usable \cup {None}]
    /\ watching \subseteq Watchers /\ Cardinality(watching) <= 1
    /\ CollectorIds \in [Pods -> SUBSET Endpoints]
    /\ collecting \in [Pods -> [Endpoints -> Versions \cup {None}]]

\* Every collector that runs for a pod is in CollectorIds: when the pod or its
\* configuration goes, stopCollecting finds it, also when configurations with
\* different endpoints were started for the pod one after the other.  (In the
\* shutdown main takes them out while the consumer may be starting some.)
CollectorsAreRegistered ==
    main = "running" =>
        \A p \in Pods, e \in Endpoints : collecting[p][e] # None => e \in CollectorIds[p]

\* The config maps of the namespace are watched exactly while the inventory has
\* pods: whenever the pod goroutine is between two events there is a watcher if
\* and only if there is a pod, and of the watchers only that one was not told to
\* stop.
WatchersFollowPods ==
    main = "running" =>
    /\ podHandler = Idle => (watching # {} <=> DOMAIN discovered # {})
    /\ \A w \in Watchers : w \in watching <=> (Handler(w).pc # "unborn" /\ ~Handler(w).abort)

\* What the cluster asks to be collected.
Wanted(p, e) ==
    IF /\ p \in Present /\ pods[p].hasIP /\ pods[p].volume # None
       /\ configs[pods[p].volume] \in Usable /\ e \in Content[configs[pods[p].volume]].starts
    THEN configs[pods[p].volume] ELSE None

\* The pods and config maps of the cluster are what is collected.
Settled == \A p \in Pods, e \in Endpoints : collecting[p][e] = Wanted(p, e)

\* When the cluster stops changing, the agent comes to collect exactly what the
\* pods and config maps ask for, and keeps it so: no pod is missed in whatever
\* order pods, config maps and the watches of both appear.
EventuallySettled == [](main = "running") => <>[]Settled

\* The consumer is not waited for when the agent stops, but the channel has no
\* buffer: after StopCollectingAll nothing is collected unless it was started
\* for the one event that the consumer was still working on.
LeftoversOfOneEvent ==
    main = "stopped" =>
        \A p, q \in Pods : \A e, f \in Endpoints :
            collecting[p][e] # None /\ collecting[q][f] # None => p = q
=============================================================================
