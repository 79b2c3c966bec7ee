------------------------ MODULE NodeDiscoveryProofs ------------------------
(***************************************************************************)
(* Discovery, for any pods, config maps, endpoints and contents, whatever  *)
(* the cluster does and however long it does it: neither the bounds on its *)
(* changes nor fairness is used here.                                      *)
(***************************************************************************)
EXTENDS NodeDiscovery, FiniteSetTheorems, SequenceTheorems, TLAPS

EventTypes == {"ADDED", "MODIFIED", "DELETED"}
Events(S, T) == [type : EventTypes, of : S, state : T]
Streams(S, T) == [open : BOOLEAN, events : Seq(Events(S, T))]
Entries == Usable \cup {None}

PodStreams == Streams(Pods, PodStates)
ConfigStreams == Streams(Names, Versions)

\* The goroutine of the pods works on an event; one of a config map rests, tells
\* the pods one by one, or waits to tell one of them.
HandlesPod == [pc : {"lookup", "send", "sent"}, type : EventTypes, pod : Pods, state : PodStates, config : Entries]
Resting == [pc : {"unborn", "check", "create", "watch", "exited"}, abort : BOOLEAN, stream : ConfigStreams]
Telling ==
    [pc : {"add", "iterate"}, abort : BOOLEAN, stream : ConfigStreams, type : EventTypes,
     name : Names, config : Entries, visited : SUBSET Pods, start : SUBSET Pods]
Sending ==
    [pc : {"send"}, abort : BOOLEAN, stream : ConfigStreams, type : EventTypes,
     name : Names, config : Entries, visited : SUBSET Pods, start : SUBSET Pods,
     pod : Pods, state : PodStates]
Handlers == Resting \cup Telling \cup Sending

NodeEvents ==
    [pc : {"busy"}, type : EventTypes, source : {"pod", "config"}, pod : Pods, state : PodStates, config : Entries]

ExistingConfigs == {n \in Names : configs[n] # None}
-----------------------------------------------------------------------------
(* The inductive invariant.                                                *)

\* Of the pods and config maps there may be, finitely many exist at a time.
Cluster ==
    /\ pods \in [Pods -> PodStates \cup {Unknown, Gone}] /\ IsFiniteSet(Present)
    /\ configs \in [Names -> Versions \cup {None}] /\ IsFiniteSet(ExistingConfigs)

Handling ==
    /\ podStream \in PodStreams
    /\ podHandler \in HandlesPod \cup {Idle, [pc |-> "create"]}

Known ==
    /\ DOMAIN discovered \subseteq Pods
    /\ \A p \in DOMAIN discovered : discovered[p] \in PodStates
    /\ entries \in [Names -> Entries]

AtMostOneWatcher == watching = {} \/ \E w \in Watchers : watching = {w}
Watching == AtMostOneWatcher /\ cmHandler \in [Watchers -> Handlers]

Consuming ==
    /\ consumer \in NodeEvents \cup {Idle}
    /\ CollectorIds \in [Pods -> SUBSET Endpoints]
    /\ collecting \in [Pods -> [Endpoints -> Versions \cup {None}]]

\* While the goroutine of the pods is at work the watcher may lag behind: by a
\* pod that came, or by the last pod that went.
Following ==
    main = "running" =>
        /\ podHandler.pc \in {"idle", "create"} => (watching # {} <=> DOMAIN discovered # {})
        /\ podHandler.pc \in {"lookup", "send", "sent"} =>
            IF podHandler.type = "DELETED" THEN DOMAIN discovered # {} => watching # {}
            ELSE DOMAIN discovered # {}
        /\ \A w \in Watchers : w \in watching <=> (Handler(w).pc # "unborn" /\ ~Handler(w).abort)

\* Once all collectors have been stopped the consumer ends what it was doing and
\* gets no more.
NothingCollected == \A p \in Pods, e \in Endpoints : collecting[p][e] = None
Leftovers == main = "stopped" => LeftoversOfOneEvent /\ (consumer # Idle => NothingCollected)

IInv ==
    /\ Cluster /\ Handling /\ Known /\ Watching /\ Consuming
    /\ Following /\ CollectorsAreRegistered /\ Leftovers
-----------------------------------------------------------------------------
(* Streams.                                                                *)

\* A watch begins with what exists.
LEMMA ListingIsStream ==
    ASSUME NEW S, NEW T, NEW existing \in SUBSET S, IsFiniteSet(existing),
           NEW state, \A x \in existing : state[x] \in T,
           NEW stream \in Listing(existing, state)
    PROVE  stream \in Streams(S, T)
  <1>1. PICK s \in SetToSeqs(existing) :
            stream = [open |-> TRUE, events |->
                        [i \in DOMAIN s |-> [type |-> "ADDED", of |-> s[i], state |-> state[s[i]]]]]
    BY DEF Listing
  <1>2. Cardinality(existing) \in Nat BY FS_CardinalityType
  <1>3. s \in [1..Cardinality(existing) -> existing] BY DEF SetToSeqs
  <1>4. \A i \in 1..Cardinality(existing) :
            [type |-> "ADDED", of |-> s[i], state |-> state[s[i]]] \in Events(S, T)
    BY <1>3 DEF Events, EventTypes
  <1>5. [i \in 1..Cardinality(existing) |-> [type |-> "ADDED", of |-> s[i], state |-> state[s[i]]]]
            \in Seq(Events(S, T))
    BY <1>2, <1>4
  <1> QED BY <1>1, <1>3, <1>5 DEF Streams

\* A change is delivered at the end, and events are read from the beginning.
LEMMA StreamsGo ==
    ASSUME NEW S, NEW T, NEW stream \in Streams(S, T)
    PROVE  /\ \A e \in Events(S, T) : Deliver(stream, e) \in Streams(S, T)
           /\ stream.events # <<>> => /\ Head(stream.events) \in Events(S, T)
                                      /\ Received(stream) \in Streams(S, T)
           /\ [stream EXCEPT !.open = FALSE] \in Streams(S, T)
  <1> DEFINE E == Events(S, T)
  <1> HIDE DEF E
  <1>1. stream \in [open : BOOLEAN, events : Seq(E)] BY DEF Streams, E
  <1>2. ASSUME NEW e \in E PROVE Deliver(stream, e) \in [open : BOOLEAN, events : Seq(E)]
    <2>1. Append(stream.events, e) \in Seq(E) BY <1>1, <1>2
    <2> QED BY <1>1, <2>1 DEF Deliver
  <1>3. ASSUME stream.events # <<>>
        PROVE  /\ Head(stream.events) \in E
               /\ Received(stream) \in [open : BOOLEAN, events : Seq(E)]
    <2>1. Head(stream.events) \in E /\ Tail(stream.events) \in Seq(E) BY <1>1, <1>3
    <2> QED BY <1>1, <2>1 DEF Received
  <1>4. [stream EXCEPT !.open = FALSE] \in [open : BOOLEAN, events : Seq(E)] BY <1>1
  <1> QED BY <1>2, <1>3, <1>4 DEF E, Streams

\* A watch that is stopped has the first of its events at most.
LEMMA StoppedIsStream ==
    ASSUME NEW S, NEW T, NEW stream \in Streams(S, T), NEW stopped \in Stopped(stream)
    PROVE  stopped \in Streams(S, T)
  <1>1. PICK k \in {0, 1} \cap 0..Len(stream.events) :
            stopped = [open |-> FALSE, events |-> SubSeq(stream.events, 1, k)]
    BY DEF Stopped
  <1>2. stream.events \in Seq(Events(S, T)) BY DEF Streams
  <1>3. SubSeq(stream.events, 1, k) \in Seq(Events(S, T)) BY <1>2
  <1> QED BY <1>1, <1>3 DEF Streams
-----------------------------------------------------------------------------
(* Initially.                                                              *)

\* The agent starts with an empty inventory and without watchers.
LEMMA Initially == Init => IInv
  <1> SUFFICES ASSUME Init PROVE IInv
    OBVIOUS
  <1>1. Present = {} /\ ExistingConfigs = {} BY DEF Init, Present, ExistingConfigs
  <1>2. Cluster BY <1>1, FS_EmptySet DEF Init, Cluster
  <1>3. Handling BY DEF Init, Handling, PodStreams, Streams
  <1>4. DOMAIN discovered = {} BY DEF Init
  <1>5. Known BY <1>4 DEF Init, Known, Entries
  <1>6. Unborn \in Handlers
    BY DEF Unborn, Handlers, Resting, ConfigStreams, Streams, Closed
  <1>7. Watching BY <1>6 DEF Init, Watching, AtMostOneWatcher
  <1>8. Consuming BY DEF Init, Consuming
  <1>9. Following BY <1>4 DEF Init, Following, Idle, Unborn, Handler
  <1>10. CollectorsAreRegistered BY DEF Init, CollectorsAreRegistered
  <1>11. Leftovers BY DEF Init, Leftovers
  <1> QED BY <1>2, <1>3, <1>5, <1>7, <1>8, <1>9, <1>10, <1>11 DEF IInv
-----------------------------------------------------------------------------
(* The cluster.                                                            *)

\* If the agent's own state stays, but for what its watches have still to yield,
\* the invariant holds on.
LEMMA WatchesKeep ==
    ASSUME IInv, Cluster', podStream' \in PodStreams,
           UNCHANGED <<podHandler, inventory, collection, main>>,
           cmHandler' \in [Watchers -> Handlers],
           \A w \in Watchers : cmHandler'[w].pc = cmHandler[w].pc /\ cmHandler'[w].abort = cmHandler[w].abort
    PROVE  IInv'
  <1>1. UNCHANGED <<podHandler, discovered, entries, watching, consumer, CollectorIds, collecting, main>>
    BY DEF inventory, collection
  <1>2. Handling' BY <1>1 DEF IInv, Handling
  <1>3. Known' BY <1>1 DEF IInv, Known
  <1>4. Watching' BY <1>1 DEF IInv, Watching, AtMostOneWatcher
  <1>5. Consuming' BY <1>1 DEF IInv, Consuming
  <1>6. Following' BY <1>1 DEF IInv, Following, Handler
  <1>7. CollectorsAreRegistered' /\ Leftovers'
    BY <1>1 DEF IInv, CollectorsAreRegistered, Leftovers, LeftoversOfOneEvent, NothingCollected
  <1> QED BY <1>2, <1>3, <1>4, <1>5, <1>6, <1>7 DEF IInv

\* A handler whose watch is replaced is a handler still.
LEMMA StreamReplaced ==
    ASSUME NEW h \in Handlers, NEW stream \in ConfigStreams
    PROVE  /\ [h EXCEPT !.stream = stream] \in Handlers
           /\ [h EXCEPT !.stream = stream].pc = h.pc /\ [h EXCEPT !.stream = stream].abort = h.abort
  <1>1. CASE h \in Resting BY <1>1 DEF Handlers, Resting
  <1>2. CASE h \in Telling BY <1>2 DEF Handlers, Telling
  <1>3. CASE h \in Sending BY <1>3 DEF Handlers, Sending
  <1> QED BY <1>1, <1>2, <1>3 DEF Handlers

\* Every handler has a watch.
LEMMA HandlersWatch ==
    ASSUME NEW h \in Handlers
    PROVE  h.stream \in ConfigStreams /\ h.abort \in BOOLEAN
  BY DEF Handlers, Resting, Telling, Sending

\* The changes of the cluster reach the watches as events of their kind.
LEMMA ClusterKeeps ==
    ASSUME IInv, ChangePod \/ ChangeConfig \/ TimeOut, UNCHANGED main
    PROVE  IInv'
  <1>1. ASSUME NEW p \in Pods, NEW type \in EventTypes, NEW new \in PodStates \cup {Gone},
               NEW seen \in PodStates, PodChanges(p, type, new, seen)
        PROVE  IInv'
    <2>1. pods' = [pods EXCEPT ![p] = new] /\ UNCHANGED <<configs, podHandler, cmHandler, inventory, collection>>
      BY <1>1 DEF PodChanges
    <2>2. podStream' \in PodStreams
      <3>1. [type |-> type, of |-> p, state |-> seen] \in Events(Pods, PodStates) BY DEF Events
      <3> QED BY <1>1, <3>1, StreamsGo DEF PodChanges, IInv, Handling, PodStreams
    <2>3. IsFiniteSet(Present')
      <3>1. Present' \subseteq Present \cup {p} BY <2>1 DEF Present, IInv, Cluster
      <3>2. IsFiniteSet(Present \cup {p}) BY FS_AddElement DEF IInv, Cluster
      <3> QED BY <3>1, <3>2, FS_Subset
    <2>4. Cluster' BY <2>1, <2>3 DEF IInv, Cluster, ExistingConfigs
    <2> QED BY <2>1, <2>2, <2>4, WatchesKeep DEF IInv, Watching
  <1>2. ASSUME NEW n \in Names, NEW type \in EventTypes, NEW new \in Versions \cup {None},
               NEW seen \in Versions, ConfigChanges(n, type, new, seen)
        PROVE  IInv'
    <2>1. /\ configs' = [configs EXCEPT ![n] = new]
          /\ UNCHANGED <<pods, podStream, podHandler, inventory, collection>>
      BY <1>2 DEF ConfigChanges
    <2>2. /\ cmHandler' \in [Watchers -> Handlers]
          /\ \A w \in Watchers :
                cmHandler'[w].pc = cmHandler[w].pc /\ cmHandler'[w].abort = cmHandler[w].abort
      <3> DEFINE e == [type |-> type, of |-> n, state |-> seen]
                 New(w) == [cmHandler[w] EXCEPT !.stream = Deliver(cmHandler[w].stream, e)]
      <3>1. e \in Events(Names, Versions) BY DEF Events
      <3> HIDE DEF e
      <3>2. cmHandler' = [w \in Watchers |-> New(w)] BY <1>2 DEF ConfigChanges, e
      <3>3. ASSUME NEW w \in Watchers
            PROVE  New(w) \in Handlers /\ New(w).pc = cmHandler[w].pc /\ New(w).abort = cmHandler[w].abort
        <4>1. cmHandler[w] \in Handlers BY DEF IInv, Watching
        <4>2. Deliver(cmHandler[w].stream, e) \in ConfigStreams
          BY <3>1, <4>1, HandlersWatch, StreamsGo DEF ConfigStreams
        <4> QED BY <4>1, <4>2, StreamReplaced
      <3> HIDE DEF New
      <3> QED BY <3>2, <3>3
    <2>3. IsFiniteSet(ExistingConfigs')
      <3>1. ExistingConfigs' \subseteq ExistingConfigs \cup {n} BY <2>1 DEF ExistingConfigs, IInv, Cluster
      <3>2. IsFiniteSet(ExistingConfigs \cup {n}) BY FS_AddElement DEF IInv, Cluster
      <3> QED BY <3>1, <3>2, FS_Subset
    <2>4. Cluster' BY <2>1, <2>3 DEF IInv, Cluster, Present
    <2> QED BY <2>1, <2>2, <2>4, WatchesKeep DEF IInv, Handling
  <1>3. CASE ChangePod
    <2>1. \E p \in Pods, type \in EventTypes, new \in PodStates \cup {Gone}, seen \in PodStates :
            PodChanges(p, type, new, seen)
      <3>1. \A p \in Present : p \in Pods /\ pods[p] \in PodStates BY DEF Present, IInv, Cluster
      <3>2. CASE \E p \in Pods, new \in PodStates : PodChanges(p, "ADDED", new, new)
        BY <3>2 DEF EventTypes
      <3>3. CASE \E p \in Present, new \in PodStates : PodChanges(p, "MODIFIED", new, new)
        BY <3>1, <3>3 DEF EventTypes
      <3>4. CASE \E p \in Present : PodChanges(p, "DELETED", Gone, pods[p])
        BY <3>1, <3>4 DEF EventTypes
      <3> QED BY <1>3, <3>2, <3>3, <3>4 DEF ChangePod
    <2> QED BY <2>1, <1>1
  <1>4. CASE ChangeConfig
    <2>1. \E n \in Names, type \in EventTypes, new \in Versions \cup {None}, seen \in Versions :
            ConfigChanges(n, type, new, seen)
      <3>1. CASE \E n \in Names, v \in Versions : ConfigChanges(n, "ADDED", v, v)
        BY <3>1 DEF EventTypes
      <3>2. CASE \E n \in Names, v \in Versions : ConfigChanges(n, "MODIFIED", v, v)
        BY <3>2 DEF EventTypes
      <3>3. CASE \E n \in Names : configs[n] # None /\ ConfigChanges(n, "DELETED", None, configs[n])
        <4>1. PICK n \in Names : configs[n] # None /\ ConfigChanges(n, "DELETED", None, configs[n])
          BY <3>3
        <4>2. configs[n] \in Versions BY <4>1 DEF IInv, Cluster
        <4> QED BY <4>1, <4>2 DEF EventTypes
      <3> QED BY <1>4, <3>1, <3>2, <3>3 DEF ChangeConfig
    <2> QED BY <2>1, <1>2
  <1>5. CASE TimeOut
    <2>1. UNCHANGED <<pods, configs, podHandler, inventory, collection>> BY <1>5 DEF TimeOut
    <2>2. Cluster' BY <2>1 DEF IInv, Cluster, Present, ExistingConfigs
    <2>3. CASE podStream' = [podStream EXCEPT !.open = FALSE] /\ UNCHANGED cmHandler
      <3>1. podStream' \in PodStreams BY <2>3, StreamsGo DEF IInv, Handling, PodStreams
      <3> QED BY <2>1, <2>2, <2>3, <3>1, WatchesKeep DEF IInv, Watching
    <2>4. ASSUME NEW w \in Watchers, cmHandler' = [cmHandler EXCEPT ![w].stream.open = FALSE],
                 UNCHANGED podStream
          PROVE  IInv'
      <3> DEFINE stream == [cmHandler[w].stream EXCEPT !.open = FALSE]
                 h == [cmHandler[w] EXCEPT !.stream = stream]
      <3>1. cmHandler \in [Watchers -> Handlers] /\ cmHandler[w] \in Handlers BY DEF IInv, Watching
      <3>2. stream \in ConfigStreams BY <3>1, HandlersWatch, StreamsGo DEF ConfigStreams
      <3>3. h \in Handlers /\ h.pc = cmHandler[w].pc /\ h.abort = cmHandler[w].abort
        BY <3>1, <3>2, StreamReplaced
      <3>4. cmHandler' = [cmHandler EXCEPT ![w] = h] BY <2>4, <3>1
      <3> HIDE DEF h
      <3>5. /\ cmHandler' \in [Watchers -> Handlers]
            /\ \A x \in Watchers :
                cmHandler'[x].pc = cmHandler[x].pc /\ cmHandler'[x].abort = cmHandler[x].abort
        BY <3>1, <3>3, <3>4
      <3> QED BY <2>1, <2>2, <2>4, <3>5, WatchesKeep DEF IInv, Handling
    <2> QED BY <1>5, <2>3, <2>4 DEF TimeOut
  <1> QED BY <1>3, <1>4, <1>5
-----------------------------------------------------------------------------
(* The goroutine of the pods.                                              *)

\* The watcher of the namespace is told to stop, and no other is.
LEMMA UnwatchStops ==
    ASSUME IInv, unwatchConfigMap
    PROVE  /\ watching' = {} /\ entries' \in [Names -> Entries]
           /\ cmHandler' \in [Watchers -> Handlers]
           /\ \A w \in Watchers :
                /\ cmHandler'[w].pc = cmHandler[w].pc
                /\ cmHandler'[w].abort = IF w \in watching THEN TRUE ELSE cmHandler[w].abort
  <1>1. watching' = {} /\ entries' \in [Names -> Entries] BY DEF unwatchConfigMap, Entries
  <1>2. cmHandler \in [Watchers -> Handlers] BY DEF IInv, Watching
  <1>3. CASE watching = {} BY <1>1, <1>2, <1>3 DEF unwatchConfigMap, StopWatcher
  <1>4. CASE watching # {}
    <2>0. PICK w \in watching : \E s \in Stopped(cmHandler[w].stream) :
              cmHandler' = [cmHandler EXCEPT ![w].abort = TRUE, ![w].stream = s]
      BY <1>4 DEF unwatchConfigMap, StopWatcher
    <2>1. PICK s \in Stopped(cmHandler[w].stream) :
              cmHandler' = [cmHandler EXCEPT ![w].abort = TRUE, ![w].stream = s]
      BY <2>0
    <2>2. w \in Watchers /\ watching = {w} BY DEF IInv, Watching, AtMostOneWatcher
    <2>3. s \in ConfigStreams BY <1>2, <2>2, HandlersWatch, StoppedIsStream DEF ConfigStreams
    <2> DEFINE told == [cmHandler[w] EXCEPT !.abort = TRUE]
               h == [told EXCEPT !.stream = s]
    <2>4. told \in Handlers /\ told.pc = cmHandler[w].pc /\ told.abort = TRUE
      <3>1. cmHandler[w] \in Handlers BY <1>2, <2>2
      <3>2. CASE cmHandler[w] \in Resting BY <3>2 DEF Handlers, Resting
      <3>3. CASE cmHandler[w] \in Telling BY <3>3 DEF Handlers, Telling
      <3>4. CASE cmHandler[w] \in Sending BY <3>4 DEF Handlers, Sending
      <3> QED BY <3>1, <3>2, <3>3, <3>4 DEF Handlers
    <2> HIDE DEF told
    <2>5. h \in Handlers /\ h.pc = cmHandler[w].pc /\ h.abort = TRUE BY <2>3, <2>4, StreamReplaced
    <2>6. cmHandler' = [cmHandler EXCEPT ![w] = h] BY <1>2, <2>1, <2>2 DEF told
    <2> HIDE DEF h
    <2> QED BY <1>1, <1>2, <2>2, <2>5, <2>6
  <1> QED BY <1>3, <1>4

\* The watches and the inventory, as the goroutine of the pods goes from one
\* event to the next.
LEMMA PodHandlerKeeps == ASSUME IInv, PodHandlerStep, UNCHANGED main PROVE IInv'
  <1>1. UNCHANGED <<cluster, CollectorIds, collecting>>
    BY DEF PodHandlerStep, PodWatchEnds, CreatePodWatch, PodEvent, LookUpConfig, SendPodEvent,
           WatchConfigs, UnwatchConfigs, collection
  <1>2. Cluster' BY <1>1 DEF IInv, Cluster, cluster, Present, ExistingConfigs
  <1>3. CollectorsAreRegistered' BY <1>1 DEF IInv, CollectorsAreRegistered
  <1>4. /\ consumer' \in NodeEvents \cup {Idle}
        /\ consumer' = consumer \/ ~Stopping
    <2>1. CASE SendPodEvent
      <3>1. podHandler \in HandlesPod BY <2>1 DEF SendPodEvent, IInv, Handling, Idle
      <3>2. consumer' = [pc |-> "busy", type |-> podHandler.type, source |-> "pod", pod |-> podHandler.pod,
                         state |-> podHandler.state, config |-> podHandler.config] /\ ~Stopping
        BY <2>1 DEF SendPodEvent, MayReceive
      <3> QED BY <3>1, <3>2 DEF HandlesPod, NodeEvents
    <2>2. CASE UNCHANGED consumer BY <2>2 DEF IInv, Consuming
    <2> QED
      BY <2>1, <2>2 DEF PodHandlerStep, PodWatchEnds, CreatePodWatch, PodEvent, LookUpConfig,
                        WatchConfigs, UnwatchConfigs, collection
  <1>5. Consuming' BY <1>1, <1>4 DEF IInv, Consuming
  <1>6. Leftovers' BY <1>1, <1>4 DEF IInv, Leftovers, LeftoversOfOneEvent, NothingCollected, Stopping
  <1>7. SUFFICES Handling' /\ Known' /\ Watching' /\ Following'
    BY <1>2, <1>3, <1>5, <1>6 DEF IInv
  <1>8. CASE PodWatchEnds \/ CreatePodWatch
    <2>1. UNCHANGED <<discovered, entries, watching, cmHandler>> /\ podHandler.pc \in {"idle", "create"}
      BY <1>8 DEF PodWatchEnds, CreatePodWatch, inventory, Idle
    <2>2. podHandler' \in {Idle, [pc |-> "create"]} BY <1>8 DEF PodWatchEnds, CreatePodWatch
    <2>3. podStream' \in PodStreams
      <3>1. CASE PodWatchEnds BY <3>1 DEF PodWatchEnds, IInv, Handling
      <3>2. CASE CreatePodWatch
        <4>1. /\ podStream' \in Listing(Present, pods) /\ Present \in SUBSET Pods /\ IsFiniteSet(Present)
              /\ \A p \in Present : pods[p] \in PodStates
          BY <3>2 DEF CreatePodWatch, Present, IInv, Cluster
        <4> QED BY <4>1, ListingIsStream DEF PodStreams
      <3> QED BY <1>8, <3>1, <3>2
    <2>4. Handling' BY <2>2, <2>3 DEF Handling
    <2>5. Known' /\ Watching' BY <2>1 DEF IInv, Known, Watching, AtMostOneWatcher
    <2>6. Following' BY <2>1, <2>2 DEF IInv, Following, Handler, Idle
    <2> QED BY <2>4, <2>5, <2>6
  <1>9. CASE PodEvent
    <2> DEFINE e == Head(podStream.events)
    <2>1. e \in Events(Pods, PodStates) /\ podStream' \in PodStreams
      BY <1>9, StreamsGo DEF PodEvent, IInv, Handling, PodStreams
    <2>2. podHandler' = [pc |-> "lookup", type |-> e.type, pod |-> e.of, state |-> e.state, config |-> None]
      BY <1>9 DEF PodEvent
    <2>3. UNCHANGED <<entries, watching, cmHandler>> /\ podHandler = Idle BY <1>9 DEF PodEvent
    <2>4. discovered' = IF e.type = "DELETED" THEN [p \in DOMAIN discovered \ {e.of} |-> discovered[p]]
                        ELSE [p \in DOMAIN discovered \cup {e.of} |->
                                IF p = e.of THEN e.state ELSE discovered[p]]
      BY <1>9 DEF PodEvent
    <2> HIDE DEF e
    <2>5. e.type \in EventTypes /\ e.of \in Pods /\ e.state \in PodStates BY <2>1 DEF Events
    <2>6. Handling' BY <2>1, <2>2, <2>5 DEF Handling, HandlesPod, Entries
    <2>7. /\ DOMAIN discovered' = IF e.type = "DELETED" THEN DOMAIN discovered \ {e.of}
                                  ELSE DOMAIN discovered \cup {e.of}
          /\ \A p \in DOMAIN discovered' : discovered'[p] = discovered[p] \/ discovered'[p] = e.state
          /\ \A p \in DOMAIN discovered' : p \notin DOMAIN discovered => discovered'[p] = e.state
      BY <2>4
    <2>8. Known' BY <2>3, <2>5, <2>7 DEF IInv, Known
    <2>9. Watching' BY <2>3 DEF IInv, Watching, AtMostOneWatcher
    <2>10. Following' BY <2>2, <2>3, <2>7 DEF IInv, Following, Handler, Idle
    <2> QED BY <2>6, <2>8, <2>9, <2>10
  <1>10. CASE LookUpConfig \/ SendPodEvent
    <2>1. podHandler.pc \in {"lookup", "send"} /\ podHandler \in HandlesPod
      BY <1>10 DEF LookUpConfig, SendPodEvent, IInv, Handling, Idle
    <2>2. UNCHANGED <<podStream, discovered, entries, watching, cmHandler>>
      BY <1>10 DEF LookUpConfig, SendPodEvent, inventory
    <2>3. podHandler' \in HandlesPod /\ podHandler'.pc \in {"send", "sent"} /\ podHandler'.type = podHandler.type
      <3>1. CASE LookUpConfig
        <4> DEFINE c == IF podHandler.state.volume = None THEN None ELSE entries[podHandler.state.volume]
        <4>1. c \in Entries
          <5>1. podHandler.state.volume \in Names \cup {None} BY <2>1 DEF HandlesPod, PodStates
          <5> QED BY <5>1 DEF IInv, Known, Entries
        <4>2. podHandler' = [podHandler EXCEPT !.pc = "send", !.config = c] BY <3>1 DEF LookUpConfig
        <4> HIDE DEF c
        <4> QED BY <2>1, <4>1, <4>2 DEF HandlesPod
      <3>2. CASE SendPodEvent
        BY <2>1, <3>2 DEF SendPodEvent, HandlesPod
      <3> QED BY <1>10, <3>1, <3>2
    <2>4. Handling' BY <2>2, <2>3 DEF IInv, Handling
    <2>5. Known' /\ Watching' BY <2>2 DEF IInv, Known, Watching, AtMostOneWatcher
    <2>6. Following' BY <2>1, <2>2, <2>3 DEF IInv, Following, Handler
    <2> QED BY <2>4, <2>5, <2>6
  <1>11. CASE WatchConfigs
    <2>1. /\ podHandler.pc = "sent" /\ podHandler.type # "DELETED" /\ podHandler' = Idle
          /\ UNCHANGED <<podStream, discovered, entries>>
      BY <1>11 DEF WatchConfigs
    <2>2. Handling' /\ Known' BY <2>1 DEF IInv, Handling, Known
    <2>3. CASE watching # {} /\ UNCHANGED <<watching, cmHandler>>
      <3>1. Watching' BY <2>3 DEF IInv, Watching, AtMostOneWatcher
      <3>2. Following' BY <2>1, <2>3 DEF IInv, Following, Handler, Idle
      <3> QED BY <2>2, <3>1, <3>2
    <2>4. CASE watching = {} /\ StartWatcher
      <3>1. PICK w \in Watchers :
              cmHandler[w] = Unborn /\ watching' = {w} /\ cmHandler' = [cmHandler EXCEPT ![w].pc = "check"]
        BY <2>4 DEF StartWatcher
      <3> DEFINE h == [Unborn EXCEPT !.pc = "check"]
      <3>2. h \in Handlers /\ h.pc = "check" /\ h.abort = FALSE
        <4>1. Closed \in ConfigStreams BY DEF ConfigStreams, Streams, Closed
        <4>2. Unborn \in Resting /\ Unborn.abort = FALSE BY <4>1 DEF Unborn, Resting
        <4>3. h \in Resting /\ h.pc = "check" /\ h.abort = FALSE BY <4>2 DEF Resting
        <4> QED BY <4>3 DEF Handlers
      <3>3. cmHandler' = [cmHandler EXCEPT ![w] = h] BY <3>1 DEF IInv, Watching
      <3> HIDE DEF h
      <3>4. Watching' BY <3>1, <3>2, <3>3 DEF IInv, Watching, AtMostOneWatcher
      <3>5. Following' BY <2>1, <2>4, <3>1, <3>2, <3>3 DEF IInv, Watching, Following, Handler, Idle
      <3> QED BY <2>2, <3>4, <3>5
    <2> QED BY <1>11, <2>3, <2>4 DEF WatchConfigs
  <1>12. CASE UnwatchConfigs
    <2>1. /\ podHandler.pc = "sent" /\ podHandler.type = "DELETED" /\ podHandler' = Idle
          /\ UNCHANGED <<podStream, discovered>>
      BY <1>12 DEF UnwatchConfigs
    <2>2. Handling' BY <2>1 DEF IInv, Handling
    <2>3. CASE DOMAIN discovered # {} /\ UNCHANGED <<watching, cmHandler, entries>>
      <3>1. Known' /\ Watching' BY <2>1, <2>3 DEF IInv, Known, Watching, AtMostOneWatcher
      <3>2. Following' BY <2>1, <2>3 DEF IInv, Following, Handler, Idle
      <3> QED BY <2>2, <3>1, <3>2
    <2>4. CASE DOMAIN discovered = {} /\ unwatchConfigMap
      <3>1. Known' BY <2>1, <2>4, UnwatchStops DEF IInv, Known
      <3>2. Watching' BY <2>4, UnwatchStops DEF Watching, AtMostOneWatcher
      <3>3. Following' BY <2>1, <2>4, UnwatchStops DEF IInv, Following, Handler, Idle
      <3> QED BY <2>2, <3>1, <3>2, <3>3
    <2> QED BY <1>12, <2>3, <2>4 DEF UnwatchConfigs
  <1> QED BY <1>8, <1>9, <1>10, <1>11, <1>12 DEF PodHandlerStep
-----------------------------------------------------------------------------
(* The goroutines of the config maps.                                      *)

\* A handler that goes on, and perhaps hands an event to the consumer or changes
\* the entries, keeps the invariant; none of them starts or ends being the
\* watcher of the namespace.
LEMMA HandlerGoesOn ==
    ASSUME IInv, NEW w \in Watchers, NEW h \in Handlers,
           cmHandler' = [cmHandler EXCEPT ![w] = h],
           cmHandler[w].pc # "unborn", h.pc # "unborn", h.abort = cmHandler[w].abort,
           entries' \in [Names -> Entries],
           consumer' = consumer \/ (consumer' \in NodeEvents /\ ~Stopping),
           UNCHANGED <<cluster, podStream, podHandler, discovered, watching, CollectorIds, collecting, main>>
    PROVE  IInv'
  <1>1. cmHandler \in [Watchers -> Handlers] BY DEF IInv, Watching
  <1>2. cmHandler' \in [Watchers -> Handlers] BY <1>1
  <1>3. Cluster' BY DEF IInv, Cluster, cluster, Present, ExistingConfigs
  <1>4. Handling' /\ Known' BY DEF IInv, Handling, Known
  <1>5. Watching' BY <1>2 DEF IInv, Watching, AtMostOneWatcher
  <1>6. Consuming' /\ CollectorsAreRegistered' BY DEF IInv, Consuming, CollectorsAreRegistered
  <1>7. \A x \in Watchers : /\ (Handler(x).pc = "unborn")' <=> Handler(x).pc = "unborn"
                            /\ cmHandler'[x].abort = cmHandler[x].abort
    BY <1>1 DEF Handler
  <1>8. Following' BY <1>7 DEF IInv, Following, Handler
  <1>9. Leftovers' BY DEF IInv, Leftovers, LeftoversOfOneEvent, NothingCollected, Stopping
  <1> QED BY <1>3, <1>4, <1>5, <1>6, <1>8, <1>9 DEF IInv

\* What kind of handler it is shows in what it is doing.
LEMMA HandlerKinds ==
    ASSUME NEW h \in Handlers
    PROVE  /\ h.pc \in {"check", "create", "watch"} => h \in Resting
           /\ h.pc \in {"add", "iterate"} => h \in Telling
           /\ h.pc = "send" => h \in Sending
  BY DEF Handlers, Resting, Telling, Sending

\* Watching, reading the events and telling the pods.
LEMMA ConfigHandlerKeeps ==
    ASSUME IInv, NEW w \in Watchers, ConfigHandlerStep(w), UNCHANGED main
    PROVE  IInv'
  <1> DEFINE h == cmHandler[w]
  <1>1. /\ cmHandler \in [Watchers -> Handlers] /\ h \in Handlers
        /\ h.stream \in ConfigStreams /\ h.abort \in BOOLEAN
    BY HandlersWatch DEF IInv, Watching
  <1>2. /\ UNCHANGED <<cluster, podStream, podHandler, discovered, watching, CollectorIds, collecting, main>>
        /\ ~ConfigEvent(w) /\ ~AddModified(w) => UNCHANGED entries
        /\ ~SendConfigEvent(w) => UNCHANGED consumer
    BY DEF ConfigHandlerStep, CheckAbort, CreateConfigWatch, ConfigWatchEnds, IgnoreConfigEvent,
           ConfigEvent, AddModified, VisitPod, SendConfigEvent, IterationEnds, inventory, collection
  <1>3. entries \in [Names -> Entries] /\ DOMAIN discovered \in SUBSET Pods
    BY DEF IInv, Known
  <1>4. ASSUME NEW new \in Handlers, cmHandler' = [cmHandler EXCEPT ![w] = new],
               h.pc # "unborn", new.pc # "unborn", new.abort = h.abort,
               entries' \in [Names -> Entries],
               consumer' = consumer \/ (consumer' \in NodeEvents /\ ~Stopping)
        PROVE  IInv'
    BY <1>2, <1>4, HandlerGoesOn
  <1>5. CASE CheckAbort(w) \/ ConfigWatchEnds(w)
    <2>1. PICK pc \in {"check", "create", "exited"} : cmHandler' = [cmHandler EXCEPT ![w].pc = pc]
      BY <1>5 DEF CheckAbort, ConfigWatchEnds
    <2>2. h.pc \in {"check", "watch"} BY <1>5 DEF CheckAbort, ConfigWatchEnds, Handler
    <2>3. [h EXCEPT !.pc = pc] \in Handlers /\ [h EXCEPT !.pc = pc].abort = h.abort
          /\ [h EXCEPT !.pc = pc].pc = pc
      BY <1>1, <2>2, HandlerKinds DEF Resting, Handlers
    <2>4. UNCHANGED <<entries, consumer>>
      BY <1>5 DEF CheckAbort, ConfigWatchEnds, inventory, collection
    <2> QED BY <1>1, <1>3, <1>4, <2>1, <2>2, <2>3, <2>4
  <1>6. CASE CreateConfigWatch(w)
    <2>1. PICK s \in Listing({n \in Names : configs[n] # None}, configs) :
              cmHandler' = [cmHandler EXCEPT ![w].pc = "watch", ![w].stream = s]
      BY <1>6 DEF CreateConfigWatch
    <2>2. s \in ConfigStreams
      <3>1. /\ {n \in Names : configs[n] # None} \in SUBSET Names
            /\ IsFiniteSet({n \in Names : configs[n] # None})
            /\ \A n \in {x \in Names : configs[x] # None} : configs[n] \in Versions
        BY DEF IInv, Cluster, ExistingConfigs
      <3> QED BY <3>1, ListingIsStream DEF ConfigStreams
    <2>3. h \in Resting /\ h.pc = "create"
      BY <1>1, <1>6, HandlerKinds DEF CreateConfigWatch, Handler
    <2> DEFINE new == [h EXCEPT !.pc = "watch", !.stream = s]
    <2>4. new \in Handlers /\ new.pc = "watch" /\ new.abort = h.abort
      BY <2>2, <2>3 DEF Resting, Handlers
    <2>5. cmHandler' = [cmHandler EXCEPT ![w] = new] BY <1>1, <2>1
    <2>6. UNCHANGED <<entries, consumer>> BY <1>6 DEF CreateConfigWatch, inventory, collection
    <2> QED BY <1>3, <1>4, <2>3, <2>4, <2>5, <2>6
  <1>7. CASE IgnoreConfigEvent(w)
    <2>1. h.pc = "watch" /\ h.stream.events # <<>> /\ UNCHANGED <<entries, consumer>>
      BY <1>7 DEF IgnoreConfigEvent, Handler, inventory, collection
    <2> DEFINE stream == Received(h.stream)
               new == [h EXCEPT !.stream = stream]
    <2>2. stream \in ConfigStreams BY <1>1, <2>1, StreamsGo DEF ConfigStreams
    <2>3. new \in Handlers /\ new.pc = h.pc /\ new.abort = h.abort BY <1>1, <2>2, StreamReplaced
    <2>4. cmHandler' = [cmHandler EXCEPT ![w] = new] BY <1>1, <1>7 DEF IgnoreConfigEvent
    <2> HIDE DEF new
    <2> QED BY <1>3, <1>4, <2>1, <2>3, <2>4
  <1>8. CASE ConfigEvent(w)
    <2> DEFINE e == Head(h.stream.events)
               stream == Received(h.stream)
               config == IF e.type = "DELETED" THEN None ELSE e.state
               new == [pc |-> IF e.type = "MODIFIED" THEN "add" ELSE "iterate",
                       abort |-> h.abort, stream |-> stream,
                       type |-> e.type, name |-> e.of, config |-> config,
                       visited |-> {}, start |-> DOMAIN discovered]
    <2>1. /\ h.pc = "watch" /\ h.stream.events # <<>> /\ ~Ignored(e)
          /\ entries' = [entries EXCEPT ![e.of] = IF e.type = "ADDED" THEN e.state ELSE None]
          /\ UNCHANGED consumer
      BY <1>8 DEF ConfigEvent, Handler, collection
    <2>2. cmHandler' = [cmHandler EXCEPT ![w] = new]
      BY <1>8 DEF ConfigEvent, Handler
    <2>3. e \in Events(Names, Versions) /\ stream \in ConfigStreams
      BY <1>1, <2>1, StreamsGo DEF ConfigStreams
    <2> HIDE DEF e, stream
    <2>4. /\ e.type \in EventTypes /\ e.of \in Names /\ e.state \in Versions BY <2>3 DEF Events
    <2>5. e.type # "DELETED" => e.state \in Usable
      <3>1. Content[e.state].entry \in {"valid", "invalid", "missing"} BY <2>4, DiscoveryConstants
      <3> QED BY <2>1, <2>4, <3>1 DEF Ignored, Usable
    <2>6. entries' \in [Names -> Entries] BY <1>3, <2>1, <2>4, <2>5 DEF EventTypes, Entries
    <2>7. config \in Entries BY <2>5 DEF Entries
    <2> HIDE DEF config
    <2>8. new \in Telling /\ new.pc # "unborn" /\ new.abort = h.abort
      BY <1>1, <1>3, <2>3, <2>4, <2>7 DEF Telling
    <2> HIDE DEF new
    <2> QED BY <1>4, <2>1, <2>2, <2>6, <2>8 DEF Handlers
  <1>9. CASE AddModified(w)
    <2> DEFINE new == [h EXCEPT !.pc = "iterate", !.start = DOMAIN discovered]
    <2>1. /\ h.pc = "add" /\ UNCHANGED consumer
          /\ entries' = [entries EXCEPT ![h.name] = h.config]
      BY <1>9 DEF AddModified, Handler, collection
    <2>2. cmHandler' = [cmHandler EXCEPT ![w] = new] BY <1>1, <1>9 DEF AddModified
    <2>3. h \in Telling BY <1>1, <2>1, HandlerKinds
    <2>4. entries' \in [Names -> Entries] BY <1>3, <2>1, <2>3 DEF Telling
    <2>5. new \in Telling /\ new.pc # "unborn" /\ new.abort = h.abort BY <1>3, <2>3 DEF Telling
    <2> HIDE DEF new
    <2> QED BY <1>4, <2>1, <2>2, <2>4, <2>5 DEF Handlers
  <1>10. CASE VisitPod(w)
    <2>1. h.pc = "iterate" /\ UNCHANGED <<entries, consumer>>
      BY <1>10 DEF VisitPod, Handler, inventory, collection
    <2>2. h \in Telling BY <1>1, <2>1, HandlerKinds
    <2>3. PICK p \in DOMAIN discovered \ Handler(w).visited : cmHandler' = [cmHandler EXCEPT ![w] =
            IF discovered[p].volume = Handler(w).name
            THEN [pc |-> "send", abort |-> @.abort, stream |-> @.stream,
                  type |-> @.type, name |-> @.name, config |-> @.config,
                  visited |-> @.visited \cup {p}, start |-> @.start,
                  pod |-> p, state |-> discovered[p]]
            ELSE [Handler(w) EXCEPT !.visited = Handler(w).visited \cup {p}]]
      BY <1>10 DEF VisitPod
    <2>4. p \in Pods /\ discovered[p] \in PodStates BY <1>3, <2>3 DEF IInv, Known
    <2> DEFINE sends == [pc |-> "send", abort |-> h.abort, stream |-> h.stream,
                         type |-> h.type, name |-> h.name, config |-> h.config,
                         visited |-> h.visited \cup {p}, start |-> h.start,
                         pod |-> p, state |-> discovered[p]]
               passes == [h EXCEPT !.visited = h.visited \cup {p}]
    <2>5. sends \in Handlers /\ sends.pc # "unborn" /\ sends.abort = h.abort
      BY <2>2, <2>4 DEF Telling, Sending, Handlers
    <2>6. passes \in Handlers /\ passes.pc # "unborn" /\ passes.abort = h.abort
      BY <2>2, <2>4 DEF Telling, Handlers
    <2>7. cmHandler' = [cmHandler EXCEPT ![w] = sends] \/ cmHandler' = [cmHandler EXCEPT ![w] = passes]
      BY <2>3 DEF Handler
    <2> HIDE DEF sends, passes
    <2> QED BY <1>3, <1>4, <2>1, <2>5, <2>6, <2>7
  <1>11. CASE SendConfigEvent(w)
    <2> DEFINE new == [pc |-> "iterate", abort |-> h.abort, stream |-> h.stream,
                       type |-> h.type, name |-> h.name, config |-> h.config,
                       visited |-> h.visited, start |-> h.start]
    <2>1. /\ h.pc = "send" /\ UNCHANGED entries /\ ~Stopping
          /\ consumer' = [pc |-> "busy", type |-> h.type, source |-> "config", pod |-> h.pod,
                          state |-> h.state, config |-> h.config]
      BY <1>11 DEF SendConfigEvent, Handler, inventory, MayReceive
    <2>2. cmHandler' = [cmHandler EXCEPT ![w] = new] BY <1>1, <1>11 DEF SendConfigEvent
    <2>3. h \in Sending BY <1>1, <2>1, HandlerKinds
    <2>4. consumer' \in NodeEvents BY <2>1, <2>3 DEF Sending, NodeEvents
    <2>5. new \in Telling /\ new.pc # "unborn" /\ new.abort = h.abort BY <2>3 DEF Sending, Telling
    <2> HIDE DEF new
    <2> QED BY <1>3, <1>4, <2>1, <2>2, <2>4, <2>5 DEF Handlers
  <1>12. CASE IterationEnds(w)
    <2> DEFINE new == [pc |-> "watch", abort |-> h.abort, stream |-> h.stream]
    <2>1. h.pc = "iterate" /\ UNCHANGED <<entries, consumer>>
      BY <1>12 DEF IterationEnds, Handler, inventory, collection
    <2>2. cmHandler' = [cmHandler EXCEPT ![w] = new] BY <1>1, <1>12 DEF IterationEnds
    <2>3. new \in Resting /\ new.pc # "unborn" /\ new.abort = h.abort BY <1>1 DEF Resting
    <2> HIDE DEF new
    <2> QED BY <1>3, <1>4, <2>1, <2>2, <2>3 DEF Handlers
  <1> QED BY <1>5, <1>6, <1>7, <1>8, <1>9, <1>10, <1>11, <1>12 DEF ConfigHandlerStep
-----------------------------------------------------------------------------
(* The consumer and main.                                                  *)

\* What is started is registered, and what is stopped was registered.
LEMMA ConsumeKeeps == ASSUME IInv, Consume, UNCHANGED main PROVE IInv'
  <1> DEFINE p         == consumer.pod
             stops     == consumer.type # "ADDED"
             starting  == consumer.type # "DELETED" /\ consumer.config # None /\ consumer.state.hasIP
             endpoints == IF starting THEN Content[consumer.config].starts ELSE {}
             refused   == IF starting THEN Content[consumer.config].refuses ELSE {}
             left      == IF stops THEN [CollectorIds EXCEPT ![p] = {}] ELSE CollectorIds
  <1>1. /\ consumer # Idle /\ consumer' = Idle
        /\ UNCHANGED <<cluster, podStream, podHandler, cmHandler, inventory>>
    BY DEF Consume
  <1>2. PICK stay \in IF Stopping THEN SUBSET endpoints ELSE {endpoints} :
            /\ CollectorIds' = Started(left, p, stay \cup refused)
            /\ collecting' = [collecting EXCEPT ![p] = [e \in Endpoints |->
                    IF e \in stay THEN consumer.config
                    ELSE IF stops /\ e \in CollectorIds[p] THEN None ELSE collecting[p][e]]]
    BY DEF Consume
  <1>3. /\ p \in Pods /\ consumer.config \in Usable \cup {None}
        /\ CollectorIds \in [Pods -> SUBSET Endpoints]
        /\ collecting \in [Pods -> [Endpoints -> Versions \cup {None}]]
    BY <1>1 DEF IInv, Consuming, NodeEvents, Entries
  <1>4. /\ endpoints \subseteq Endpoints /\ refused \subseteq Endpoints
        /\ endpoints # {} => consumer.config \in Versions
    <2>1. CASE starting
      <3>1. consumer.config \in Versions BY <1>3, <2>1 DEF Usable
      <3>2. Content[consumer.config].starts \subseteq Endpoints /\ Content[consumer.config].refuses \subseteq Endpoints
        BY <3>1, DiscoveryConstants
      <3> QED BY <2>1, <3>1, <3>2
    <2>2. CASE ~starting BY <2>2
    <2> QED BY <2>1, <2>2
  <1> HIDE DEF p, stops, starting
  <1>5. stay \subseteq endpoints /\ (~Stopping => stay = endpoints) BY <1>2
  <1>6. left \in [Pods -> SUBSET Endpoints] /\ (\A q \in Pods : q # p => left[q] = CollectorIds[q])
        /\ left[p] = IF stops THEN {} ELSE CollectorIds[p]
    BY <1>3
  <1> HIDE DEF endpoints, refused, left
  <1>7. CollectorIds' = [left EXCEPT ![p] = left[p] \cup (stay \cup refused)] BY <1>2 DEF Started
  <1>8. Consuming'
    <2>1. CollectorIds' \in [Pods -> SUBSET Endpoints] BY <1>4, <1>5, <1>6, <1>7
    <2>2. collecting' \in [Pods -> [Endpoints -> Versions \cup {None}]]
      <3>1. [e \in Endpoints |-> IF e \in stay THEN consumer.config
                ELSE IF stops /\ e \in CollectorIds[p] THEN None ELSE collecting[p][e]]
                \in [Endpoints -> Versions \cup {None}]
        BY <1>3, <1>4, <1>5
      <3> QED BY <1>2, <1>3, <3>1
    <2> QED BY <1>1, <2>1, <2>2 DEF Consuming
  <1>9. /\ \A q \in Pods : q # p => collecting'[q] = collecting[q] /\ CollectorIds'[q] = CollectorIds[q]
        /\ \A e \in Endpoints : collecting'[p][e] =
                IF e \in stay THEN consumer.config
                ELSE IF stops /\ e \in CollectorIds[p] THEN None ELSE collecting[p][e]
    BY <1>2, <1>3, <1>6, <1>7
  <1>10. CollectorsAreRegistered'
    <2> SUFFICES ASSUME main = "running", NEW q \in Pods, NEW e \in Endpoints, collecting'[q][e] # None
                 PROVE  e \in CollectorIds'[q]
      BY DEF CollectorsAreRegistered
    <2>1. CASE q # p BY <1>9, <2>1 DEF IInv, CollectorsAreRegistered
    <2>2. CASE q = p
      <3>1. CASE e \in stay BY <1>3, <1>6, <1>7, <2>2, <3>1
      <3>2. CASE e \notin stay
        <4>1. collecting[p][e] # None /\ ~(stops /\ e \in CollectorIds[p]) BY <1>9, <2>2, <3>2
        <4>2. e \in CollectorIds[p] BY <1>3, <4>1 DEF IInv, CollectorsAreRegistered
        <4> QED BY <1>3, <1>6, <1>7, <2>2, <4>1, <4>2
      <3> QED BY <3>1, <3>2
    <2> QED BY <2>1, <2>2
  <1>11. Leftovers'
    <2> SUFFICES ASSUME main = "stopped" PROVE LeftoversOfOneEvent' /\ consumer' = Idle
      BY DEF Leftovers
    <2>1. NothingCollected BY <1>1 DEF IInv, Leftovers
    <2>2. \A q \in Pods, e \in Endpoints : q # p => collecting'[q][e] = None
      BY <1>9, <2>1 DEF NothingCollected
    <2> QED BY <1>1, <2>2 DEF LeftoversOfOneEvent
  <1>12. Cluster' /\ Handling' /\ Known' /\ Watching' /\ Following'
    <2>1. UNCHANGED <<pods, configs, podStream, podHandler, cmHandler, discovered, entries, watching>>
      BY <1>1 DEF cluster, inventory
    <2>2. Cluster' /\ Handling' /\ Known'
      BY <2>1 DEF IInv, Cluster, Present, ExistingConfigs, Handling, Known
    <2>3. Watching' /\ Following' BY <2>1 DEF IInv, Watching, AtMostOneWatcher, Following, Handler
    <2> QED BY <2>2, <2>3
  <1> QED BY <1>8, <1>10, <1>11, <1>12 DEF IInv

\* The shutdown: from its first step on nothing is claimed of the watchers and
\* the registered collectors any more; its last one stops all that is left.
LEMMA ShutdownKeeps == ASSUME IInv, Shutdown PROVE IInv'
  <1>1. main' # "running" /\ UNCHANGED <<cluster, podHandler, consumer, discovered>>
    BY DEF Shutdown, StopPodWatch, StopConfigWatches, CloseChannel, SendOnClosed, StopCollectors,
           StopCollectingAll, discoveryVars, inventory, collection
  <1>2. Cluster' BY <1>1 DEF IInv, Cluster, cluster, Present, ExistingConfigs
  <1>3. Following' /\ CollectorsAreRegistered' BY <1>1 DEF Following, CollectorsAreRegistered
  <1>4. podStream' \in PodStreams
    <2>1. CASE StopPodWatch BY <2>1, StoppedIsStream DEF StopPodWatch, IInv, Handling, PodStreams
    <2>2. CASE UNCHANGED podStream BY <2>2 DEF IInv, Handling
    <2> QED
      BY <2>1, <2>2 DEF Shutdown, StopConfigWatches, CloseChannel, SendOnClosed, StopCollectors,
                        StopCollectingAll, discoveryVars
  <1>5. Handling' BY <1>1, <1>4 DEF IInv, Handling
  <1>6. Known' /\ Watching'
    <2>1. CASE StopConfigWatches
      <3>1. unwatchConfigMap BY <2>1 DEF StopConfigWatches
      <3> QED BY <1>1, <3>1, UnwatchStops DEF IInv, Known, Watching, AtMostOneWatcher
    <2>2. CASE UNCHANGED <<entries, watching, cmHandler>>
      BY <1>1, <2>2 DEF IInv, Known, Watching, AtMostOneWatcher
    <2> QED
      BY <2>1, <2>2 DEF Shutdown, StopPodWatch, CloseChannel, SendOnClosed, StopCollectors,
                        StopCollectingAll, discoveryVars, inventory
  <1>7. CASE UNCHANGED <<CollectorIds, collecting>> /\ main' # "stopped"
    BY <1>1, <1>2, <1>3, <1>5, <1>6, <1>7 DEF IInv, Consuming, Leftovers
  <1>8. CASE StopCollectors
    <2>1. Consuming' BY <1>1, <1>8 DEF StopCollectors, IInv, Consuming
    <2>2. Leftovers' BY <1>8 DEF StopCollectors, Leftovers
    <2> QED BY <1>2, <1>3, <1>5, <1>6, <2>1, <2>2 DEF IInv
  <1>9. CASE StopCollectingAll
    <2>1. collecting' = [p \in Pods |-> [e \in Endpoints |-> None]] /\ UNCHANGED CollectorIds
      BY <1>9 DEF StopCollectingAll
    <2>2. Consuming' BY <1>1, <2>1 DEF IInv, Consuming
    <2>3. Leftovers' BY <2>1 DEF Leftovers, LeftoversOfOneEvent, NothingCollected
    <2> QED BY <1>2, <1>3, <1>5, <1>6, <2>2, <2>3 DEF IInv
  <1> QED
    BY <1>7, <1>8, <1>9 DEF Shutdown, StopPodWatch, StopConfigWatches, CloseChannel, SendOnClosed,
                            discoveryVars, collection

\* Every step keeps the invariant.
LEMMA StepKeeps == IInv /\ [Next]_vars => IInv'
  <1> SUFFICES ASSUME IInv, [Next]_vars PROVE IInv'
    OBVIOUS
  <1>1. CASE UNCHANGED vars
    <2>1. UNCHANGED <<cluster, podStream, podHandler, cmHandler, inventory, collection, main>>
      BY <1>1 DEF vars, discoveryVars
    <2>2. Cluster' BY <2>1 DEF IInv, Cluster, cluster, Present, ExistingConfigs
    <2>3. podStream' \in PodStreams /\ cmHandler' \in [Watchers -> Handlers]
      BY <2>1 DEF IInv, Handling, Watching
    <2> QED BY <2>1, <2>2, <2>3, WatchesKeep
  <1>2. CASE Alive(ChangePod) \/ Alive(ChangeConfig) \/ Alive(TimeOut)
    BY <1>2, ClusterKeeps DEF Alive
  <1>3. CASE Alive(PodHandlerStep) BY <1>3, PodHandlerKeeps DEF Alive
  <1>4. ASSUME NEW w \in Watchers, Alive(ConfigHandlerStep(w)) PROVE IInv'
    BY <1>4, ConfigHandlerKeeps DEF Alive
  <1>5. CASE Alive(Consume) BY <1>5, ConsumeKeeps DEF Alive
  <1>6. CASE Shutdown BY <1>6, ShutdownKeeps
  <1> QED BY <1>1, <1>2, <1>3, <1>4, <1>5, <1>6 DEF Next

\* The invariant holds in every behaviour.
LEMMA Invariant == Spec => []IInv
  BY Initially, StepKeeps, PTL DEF Spec
-----------------------------------------------------------------------------
(* Theorems.                                                               *)

\* The inventory is made of the pods, states and entries there can be, and the
\* namespace has one watcher at most (watchConfigMap, unwatchConfigMap).
THEOREM DiscoveryTypeCorrect == Spec => []TypeOK
  <1>1. ASSUME IInv PROVE TypeOK
    <2>1. watching \subseteq Watchers /\ Cardinality(watching) <= 1
      <3>1. CASE watching = {} BY <3>1, FS_EmptySet
      <3>2. CASE \E w \in Watchers : watching = {w} BY <3>2, FS_Singleton
      <3> QED BY <1>1, <3>1, <3>2 DEF IInv, Watching, AtMostOneWatcher
    <2> QED BY <1>1, <2>1 DEF IInv, Known, Entries, Consuming, TypeOK
  <1> QED BY <1>1, Invariant, PTL

\* Nothing is collected from a pod that stopCollecting would not find, whatever
\* configurations were started for it one after the other (consumeNodeEvents).
THEOREM CollectorsAreRegisteredHolds == Spec => []CollectorsAreRegistered
  <1>1. IInv => CollectorsAreRegistered BY DEF IInv
  <1> QED BY <1>1, Invariant, PTL

\* The config maps are watched exactly while there are pods, by one goroutine
\* that was not told to stop, whatever the watches do (watchConfigMap).
THEOREM WatchersFollowPodsHolds == Spec => []WatchersFollowPods
  <1>1. IInv => WatchersFollowPods BY DEF IInv, Following, WatchersFollowPods, Idle
  <1> QED BY <1>1, Invariant, PTL

\* After StopCollectingAll at most the one event is left that the consumer was
\* working on (NodeEventConsumer.Stop, main).
THEOREM LeftoversOfOneEventHolds == Spec => []LeftoversOfOneEvent
  <1>1. IInv => LeftoversOfOneEvent BY DEF IInv, Leftovers, LeftoversOfOneEvent
  <1> QED BY <1>1, Invariant, PTL
=============================================================================
