------------------------ MODULE MetricsStorageProofs ------------------------
(***************************************************************************)
(* The storage manager taken alone: it is started, it is stopped, workers  *)
(* send, and its two goroutines take their steps in any order.  Whatever   *)
(* starts, stops and fills it keeps to StorageSpec (AgentLifecycleProofs). *)
(***************************************************************************)
EXTENDS MetricsStorage, TLAPS

\* It is started when its goroutines do not run yet.
StorageStep ==
    \/ definer.pc = "none" /\ StartStoringMetrics
    \/ StopStoringMetrics
    \/ \E s \in Senders : SendMetrics(s) \/ SendDefinitions(s)
    \/ Definer \/ Writer

StorageSpec == StorageInit /\ [][StorageStep]_storageVars
-----------------------------------------------------------------------------
(* The inductive invariant.                                                *)

DefinitionBatches ==
    {[sender |-> s, tenant |-> TenantOf[s], defs |-> defs] : s \in Senders, defs \in DefinitionSets}
MetricBatches ==
    {batch \in [sender : Senders, tenant : {TenantOf[s] : s \in Senders}, ids : SUBSET Ids] :
        batch.tenant = TenantOf[batch.sender]}

Channels ==
    /\ defsChan \in Seq(DefinitionBatches) /\ Len(defsChan) <= ChanCap
    /\ metricsChan \in Seq(MetricBatches) /\ Len(metricsChan) <= ChanCap

\* The definer has a definition in its hands exactly while it works on one.
Working ==
    /\ DOMAIN definer = DOMAIN IdleDefiner
    /\ definer.pc \in {"none", "receive", "look", "create", "delete", "ended"}
    /\ definer.rest \in Seq(Definitions)
    /\ definer.pc \in {"look", "create", "delete"} <=> definer.rest # <<>>
    /\ definer.failed \in BOOLEAN

\* What it still has to delete is not to stay; and unless a call failed, all
\* that the server has beyond the tags that are to be is still to be deleted.
Deleting ==
    definer.pc = "delete" =>
        /\ Key \in DOMAIN server
        /\ definer.obsolete \cap DOMAIN Current.tags = {}
        /\ ~definer.failed => DOMAIN server[Key] \subseteq DOMAIN Current.tags \cup definer.obsolete

Writing ==
    /\ DOMAIN writer = {"pc", "batch"}
    /\ writer.pc \in {"none", "receive", "write", "ended"}
    /\ writer.pc = "write" => writer.batch \in MetricBatches

KnownIds == \A key \in DOMAIN server : key[2] \in Ids

Tenant(s) == IF TenantOf[s] = NoTenant THEN GlobalTenant ELSE TenantOf[s]
TenantsKept == \A x \in written : x[2] = Tenant(x[1])

StorageInv ==
    /\ Channels /\ Working /\ Deleting /\ Writing /\ KnownIds /\ TenantsKept
    /\ AsSentLast
-----------------------------------------------------------------------------
(* Lemmas.                                                                 *)

\* The definition in hand, and what is left after it, are definitions.
LEMMA CurrentIsDefinition ==
    ASSUME Working, definer.rest # <<>>
    PROVE  /\ Current \in Definitions /\ Current.id \in Ids
           /\ Tail(definer.rest) \in Seq(Definitions)
  BY DEF Working, Current, Ids

\* Tags are a function, so that two of them with the same domain and the same
\* values are equal.
LEMMA TagsAreFunctions ==
    ASSUME Working, definer.rest # <<>>
    PROVE  Current.tags = [n \in DOMAIN Current.tags |-> Current.tags[n]]
  BY CurrentIsDefinition, StorageConstants

\* Initially the manager has not been started.
LEMMA StorageInitially == StorageInit => StorageInv
  <1> SUFFICES ASSUME StorageInit PROVE StorageInv
    OBVIOUS
  <1>1. DOMAIN server = {} /\ DOMAIN outcome = {} BY DEF StorageInit
  <1>2. KnownIds /\ AsSentLast BY <1>1 DEF KnownIds, AsSentLast
  <1>3. Channels BY StorageConstants DEF StorageInit, Channels
  <1>4. Working /\ Deleting BY DEF StorageInit, Working, Deleting, IdleDefiner
  <1>5. Writing /\ TenantsKept BY DEF StorageInit, Writing, TenantsKept, IdleWriter
  <1> QED BY <1>2, <1>3, <1>4, <1>5 DEF StorageInv

\* To finish a definition, having left on the server what its outcome says,
\* keeps the invariant; every other definition is as it was.
LEMMA FinishKeeps ==
    ASSUME StorageInv, definer.rest # <<>>,
           NEW failed \in BOOLEAN, Finish(failed),
           UNCHANGED <<defsChan, metricsChan, writer, written>>,
           DOMAIN server' \subseteq DOMAIN server \cup {Key},
           \A key \in DOMAIN server : key # Key => key \in DOMAIN server' /\ server'[key] = server[key],
           ~failed => Key \in DOMAIN server' /\ server'[Key] = Current.tags
    PROVE  StorageInv'
  <1> DEFINE current == Current  key0 == Key
  <1>1. /\ current.id \in Ids /\ Tail(definer.rest) \in Seq(Definitions)
    BY CurrentIsDefinition DEF StorageInv
  <1>2. /\ definer'.rest = Tail(definer.rest) /\ definer'.failed = FALSE
        /\ definer'.pc = IF Tail(definer.rest) = <<>> THEN "receive" ELSE "look"
        /\ DOMAIN definer' = DOMAIN definer
        /\ outcome' = With(outcome, key0, [tags |-> current.tags, failed |-> failed])
    BY DEF Finish, StorageInv, Working, IdleDefiner
  <1>3. Working' BY <1>1, <1>2 DEF Working, StorageInv, IdleDefiner
  <1>4. Deleting' BY <1>2 DEF Deleting
  <1>5. Channels' /\ Writing' /\ TenantsKept' BY DEF StorageInv, Channels, Writing, TenantsKept
  <1>6. KnownIds' BY <1>1 DEF StorageInv, KnownIds, Key
  <1>7. AsSentLast'
    <2> SUFFICES ASSUME NEW key \in DOMAIN outcome', ~outcome'[key].failed
                 PROVE  key \in DOMAIN server' /\ server'[key] = outcome'[key].tags
      BY DEF AsSentLast
    <2>1. CASE key = key0 BY <2>1, <1>2 DEF With
    <2>2. CASE key # key0
      <3>1. key \in DOMAIN outcome /\ outcome'[key] = outcome[key] BY <2>2, <1>2 DEF With
      <3> QED BY <3>1, <2>2 DEF StorageInv, AsSentLast
    <2> QED BY <2>1, <2>2
  <1> QED BY <1>3, <1>4, <1>5, <1>6, <1>7 DEF StorageInv
-----------------------------------------------------------------------------
(* The steps keep the invariant.                                           *)

\* Starting, stopping and sending: what is sent is a batch of its sender.
LEMMA OthersKeep ==
    ASSUME StorageInv,
           \/ definer.pc = "none" /\ StartStoringMetrics
           \/ StopStoringMetrics
           \/ \E s \in Senders : SendMetrics(s) \/ SendDefinitions(s)
    PROVE  StorageInv'
  <1>1. CASE definer.pc = "none" /\ StartStoringMetrics
    <2>1. definer.rest = <<>> BY <1>1 DEF StorageInv, Working
    <2>2. Working' /\ Deleting' BY <1>1 DEF StartStoringMetrics, Working, Deleting, IdleDefiner
    <2>3. Writing' BY <1>1 DEF StartStoringMetrics, Writing, IdleWriter
    <2>4. Channels' /\ KnownIds' /\ TenantsKept'
      BY <1>1 DEF StartStoringMetrics, StorageInv, Channels, KnownIds, TenantsKept
    <2>5. AsSentLast' BY <1>1, <2>1 DEF StartStoringMetrics, StorageInv, AsSentLast
    <2> QED BY <2>2, <2>3, <2>4, <2>5 DEF StorageInv
  <1>2. CASE StopStoringMetrics
    BY <1>2 DEF StopStoringMetrics, StorageInv, Channels, Working, Deleting, Writing, KnownIds,
                TenantsKept, AsSentLast, Key, Current
  <1>3. ASSUME NEW s \in Senders, SendMetrics(s) \/ SendDefinitions(s) PROVE StorageInv'
    <2>1. Channels'
      <3>1. CASE SendMetrics(s)
        <4> PICK ids \in {{}, Ids} :
                metricsChan' = Append(metricsChan, [sender |-> s, tenant |-> TenantOf[s], ids |-> ids])
          BY <3>1 DEF SendMetrics
        <4>1. ids \in SUBSET Ids OBVIOUS
        <4>2. [sender |-> s, tenant |-> TenantOf[s], ids |-> ids] \in MetricBatches
          BY <4>1 DEF MetricBatches
        <4> QED BY <3>1, <4>2, StorageConstants DEF SendMetrics, StorageInv, Channels
      <3>2. CASE SendDefinitions(s)
        <4> PICK defs \in DefinitionSets :
                defsChan' = Append(defsChan, [sender |-> s, tenant |-> TenantOf[s], defs |-> defs])
          BY <3>2 DEF SendDefinitions
        <4>1. [sender |-> s, tenant |-> TenantOf[s], defs |-> defs] \in DefinitionBatches
          BY DEF DefinitionBatches
        <4> QED BY <3>2, <4>1, StorageConstants DEF SendDefinitions, StorageInv, Channels
      <3> QED BY <1>3, <3>1, <3>2
    <2>2. UNCHANGED <<definer, writer, server, written, outcome>>
      BY <1>3 DEF SendMetrics, SendDefinitions
    <2> QED
      BY <2>1, <2>2 DEF StorageInv, Working, Deleting, Writing, KnownIds, TenantsKept, AsSentLast,
                        Key, Current
  <1> QED BY <1>1, <1>2, <1>3

\* The definer: a batch is taken as a whole, and each of its definitions ends
\* with Finish.
LEMMA DefinerKeeps == ASSUME StorageInv, Definer PROVE StorageInv'
  <1>1. CASE ReceiveDefinitions
    <2>1. definer.rest = <<>> BY <1>1 DEF ReceiveDefinitions, StorageInv, Working
    <2>2. UNCHANGED <<metricsChan, writer, server, outcome>> BY <1>1 DEF ReceiveDefinitions
    <2>3. AsSentLast' /\ KnownIds' /\ Writing'
      BY <2>1, <2>2 DEF StorageInv, AsSentLast, KnownIds, Writing
    <2>4. CASE defsChan # <<>> /\ defsChan' = Tail(defsChan)
      <3> DEFINE batch == Head(defsChan)
      <3>1. batch \in DefinitionBatches /\ Channels'
        <4>1. defsChan \in Seq(DefinitionBatches) /\ defsChan # <<>> BY <2>4 DEF StorageInv, Channels
        <4>2. /\ Head(defsChan) \in DefinitionBatches
              /\ Tail(defsChan) \in Seq(DefinitionBatches)
              /\ Len(Tail(defsChan)) = Len(defsChan) - 1
          BY <4>1
        <4> QED BY <2>2, <2>4, <4>1, <4>2, StorageConstants DEF StorageInv, Channels
      <3>2. PICK s \in Senders, defs \in DefinitionSets :
                batch = [sender |-> s, tenant |-> TenantOf[s], defs |-> defs]
        <4> HIDE DEF batch
        <4> QED BY <3>1 DEF DefinitionBatches
      <3>3. CASE defs = <<>>
        <4>1. UNCHANGED <<definer, written>> BY <1>1, <2>4, <3>2, <3>3 DEF ReceiveDefinitions
        <4> QED
          BY <2>2, <2>3, <3>1, <4>1 DEF StorageInv, Working, Deleting, TenantsKept, Key, Current
      <3>4. CASE defs # <<>>
        <4>1. /\ definer' = [IdleDefiner EXCEPT !.pc = "look", !.tenant = DefinitionsTenant(batch),
                                                !.rest = defs]
              /\ written' = written \cup {<<s, DefinitionsTenant(batch)>>}
          <5>1. batch.sender = s /\ batch.defs = defs
            <6> HIDE DEF batch
            <6> QED BY <3>2
          <5> QED BY <1>1, <2>4, <5>1, <3>4 DEF ReceiveDefinitions
        <4>2. Working' /\ Deleting'
          BY <4>1, <3>4, StorageConstants DEF Working, Deleting, IdleDefiner
        <4>3. TenantsKept' BY <4>1, <3>2 DEF StorageInv, TenantsKept, Tenant, DefinitionsTenant
        <4> QED BY <2>3, <3>1, <4>2, <4>3 DEF StorageInv
      <3> QED BY <3>3, <3>4
    <2>5. CASE definer' = [definer EXCEPT !.pc = "ended"] /\ UNCHANGED <<defsChan, written>>
      <3>1. Working' /\ Deleting'
        BY <2>1, <2>5 DEF StorageInv, Working, Deleting, IdleDefiner
      <3> QED BY <2>2, <2>3, <2>5, <3>1 DEF StorageInv, Channels, TenantsKept
    <2> QED BY <1>1, <2>4, <2>5 DEF ReceiveDefinitions
  <1>2. CASE LookUp
    <2>1. definer.rest # <<>> BY <1>2 DEF LookUp, StorageInv, Working
    <2>2. UNCHANGED <<defsChan, metricsChan, writer, server, written>> BY <1>2 DEF LookUp
    <2>3. CASE Finish(TRUE) BY <2>1, <2>2, <2>3, FinishKeeps
    <2>4. CASE Key \in DOMAIN server /\ server[Key] = Current.tags /\ Finish(FALSE)
      BY <2>1, <2>2, <2>4, FinishKeeps
    <2>5. CASE /\ definer' = [definer EXCEPT !.pc = "create"]
               /\ UNCHANGED outcome
      <3>1. Working' /\ Deleting'
        BY <2>1, <2>5 DEF StorageInv, Working, Deleting, IdleDefiner
      <3>2. AsSentLast'
        BY <2>1, <2>2, <2>5 DEF StorageInv, Working, IdleDefiner, AsSentLast, Key, Current
      <3> QED BY <2>2, <3>1, <3>2 DEF StorageInv, Channels, Writing, KnownIds, TenantsKept
    <2>6. CASE /\ Key \in DOMAIN server
               /\ definer' = [definer EXCEPT !.pc = "delete",
                                  !.obsolete = DOMAIN server[Key] \ DOMAIN Current.tags]
               /\ UNCHANGED outcome
      <3>1. Working' BY <2>1, <2>6 DEF StorageInv, Working, IdleDefiner
      <3>2. definer'.rest = definer.rest /\ definer'.tenant = definer.tenant
        BY <2>6 DEF StorageInv, Working, IdleDefiner
      <3>3. Deleting'
        <4>1. Key' = Key /\ Current' = Current BY <3>2 DEF Key, Current
        <4>2. definer'.obsolete = DOMAIN server[Key] \ DOMAIN Current.tags
          BY <2>6 DEF StorageInv, Working, IdleDefiner
        <4> QED BY <2>2, <2>6, <4>1, <4>2 DEF Deleting
      <3>4. AsSentLast' BY <2>2, <2>6, <3>2 DEF StorageInv, AsSentLast, Key, Current
      <3> QED BY <2>2, <3>1, <3>3, <3>4 DEF StorageInv, Channels, Writing, KnownIds, TenantsKept
    <2> QED BY <1>2, <2>3, <2>4, <2>5, <2>6 DEF LookUp
  <1>3. CASE Create
    <2>1. definer.rest # <<>> BY <1>3 DEF Create, StorageInv, Working
    <2>2. UNCHANGED <<defsChan, metricsChan, writer, written>> BY <1>3 DEF Create
    <2>3. CASE UNCHANGED server /\ Finish(TRUE) BY <2>1, <2>2, <2>3, FinishKeeps
    <2>4. CASE server' = With(server, Key, Current.tags) /\ Finish(FALSE)
      <3>1. /\ DOMAIN server' = DOMAIN server \cup {Key}
            /\ \A key \in DOMAIN server' :
                server'[key] = IF key = Key THEN Current.tags ELSE server[key]
        BY <2>4 DEF With
      <3> QED BY <2>1, <2>2, <2>4, <3>1, FinishKeeps
    <2> QED BY <1>3, <2>3, <2>4 DEF Create
  <1>4. CASE DeleteTag
    <2>1. definer.rest # <<>> /\ Key \in DOMAIN server /\ definer.pc = "delete"
      BY <1>4 DEF DeleteTag, StorageInv, Working, Deleting
    <2>2. UNCHANGED <<defsChan, metricsChan, writer, written, outcome>> BY <1>4 DEF DeleteTag
    <2>3. PICK n \in definer.obsolete :
        \/ /\ server' = With(server, Key, [x \in DOMAIN Stored(Key) \ {n} |-> Stored(Key)[x]])
           /\ definer' = [definer EXCEPT !.obsolete = @ \ {n}]
        \/ /\ UNCHANGED server
           /\ definer' = [definer EXCEPT !.obsolete = @ \ {n}, !.failed = TRUE]
      BY <1>4 DEF DeleteTag
    <2>4. /\ DOMAIN definer' = DOMAIN definer /\ definer'.rest = definer.rest
          /\ definer'.tenant = definer.tenant /\ definer'.pc = definer.pc
          /\ definer'.obsolete = definer.obsolete \ {n}
      BY <2>3 DEF StorageInv, Working, IdleDefiner
    <2>5. /\ DOMAIN server' = DOMAIN server
          /\ \A key \in DOMAIN server : key # Key => server'[key] = server[key]
          /\ \/ server' = server /\ definer'.failed = TRUE
             \/ definer'.failed = definer.failed /\ DOMAIN server'[Key] = DOMAIN server[Key] \ {n}
      <3>1. CASE /\ server' = With(server, Key, [x \in DOMAIN Stored(Key) \ {n} |-> Stored(Key)[x]])
                 /\ definer' = [definer EXCEPT !.obsolete = @ \ {n}]
        <4>1. definer'.failed = definer.failed BY <3>1 DEF StorageInv, Working, IdleDefiner
        <4>2. server' = With(server, Key, [x \in DOMAIN server[Key] \ {n} |-> server[Key][x]])
          BY <2>1, <3>1 DEF Stored
        <4> QED BY <2>1, <4>1, <4>2 DEF With
      <3>2. CASE /\ UNCHANGED server
                 /\ definer' = [definer EXCEPT !.obsolete = @ \ {n}, !.failed = TRUE]
        BY <3>2 DEF StorageInv, Working, IdleDefiner
      <3> QED BY <2>3, <3>1, <3>2
    <2>6. Key' = Key /\ Current' = Current BY <2>4 DEF Key, Current
    <2>7. Working' BY <2>4, <2>5 DEF StorageInv, Working
    <2>8. Deleting'
      <3>1. /\ definer.obsolete \cap DOMAIN Current.tags = {}
            /\ ~definer.failed =>
                DOMAIN server[Key] \subseteq DOMAIN Current.tags \cup definer.obsolete
        BY <2>1 DEF StorageInv, Deleting
      <3> QED BY <2>1, <2>4, <2>5, <2>6, <3>1 DEF Deleting
    <2>9. AsSentLast' BY <2>1, <2>2, <2>4, <2>5, <2>6 DEF StorageInv, AsSentLast
    <2> QED
      BY <2>2, <2>5, <2>7, <2>8, <2>9 DEF StorageInv, Channels, Writing, KnownIds, TenantsKept
  <1>5. CASE UpdateTags
    <2>1. definer.rest # <<>> /\ Key \in DOMAIN server /\ definer.failed \in BOOLEAN
      BY <1>5 DEF UpdateTags, StorageInv, Working, Deleting
    <2>2. UNCHANGED <<defsChan, metricsChan, writer, written>> BY <1>5 DEF UpdateTags
    <2>3. CASE UNCHANGED server /\ Finish(TRUE) BY <2>1, <2>2, <2>3, FinishKeeps
    <2>4. CASE /\ server' = With(server, Key, [x \in DOMAIN Current.tags \cup DOMAIN Stored(Key) |->
                    IF x \in DOMAIN Current.tags THEN Current.tags[x] ELSE Stored(Key)[x]])
               /\ Finish(definer.failed)
      <3>1. /\ DOMAIN server' = DOMAIN server
            /\ \A key \in DOMAIN server : key # Key => server'[key] = server[key]
            /\ server'[Key] = [x \in DOMAIN Current.tags \cup DOMAIN server[Key] |->
                    IF x \in DOMAIN Current.tags THEN Current.tags[x] ELSE server[Key][x]]
        BY <2>1, <2>4 DEF With, Stored
      <3>2. ASSUME ~definer.failed PROVE server'[Key] = Current.tags
        <4>1. DOMAIN server[Key] \subseteq DOMAIN Current.tags
          BY <1>5, <3>2 DEF UpdateTags, StorageInv, Deleting
        <4>2. Current.tags = [x \in DOMAIN Current.tags |-> Current.tags[x]]
          BY <2>1, TagsAreFunctions DEF StorageInv
        <4> QED BY <3>1, <4>1, <4>2
      <3> QED BY <2>1, <2>2, <2>4, <3>1, <3>2, FinishKeeps
    <2> QED BY <1>5, <2>3, <2>4 DEF UpdateTags
  <1> QED BY <1>1, <1>2, <1>3, <1>4, <1>5 DEF Definer

\* The writer only adds to the server what it did not know.
LEMMA WriterKeeps == ASSUME StorageInv, Writer PROVE StorageInv'
  <1>1. UNCHANGED <<defsChan, definer, outcome>> BY DEF Writer, ReceiveMetrics, WriteMetrics
  <1>2. Key' = Key /\ Current' = Current BY <1>1 DEF Key, Current
  <1>3. CASE ReceiveMetrics
    <2>1. UNCHANGED <<server, written>> BY <1>3 DEF ReceiveMetrics
    <2>2. Channels' /\ Writing'
      <3>1. CASE metricsChan # <<>> /\ metricsChan' = Tail(metricsChan)
        <4>1. /\ metricsChan \in Seq(MetricBatches) /\ metricsChan # <<>>
              /\ Len(metricsChan) <= ChanCap
          BY <3>1 DEF StorageInv, Channels
        <4>2. /\ Head(metricsChan) \in MetricBatches
              /\ Tail(metricsChan) \in Seq(MetricBatches)
              /\ Len(Tail(metricsChan)) = Len(metricsChan) - 1
          BY <4>1
        <4>3. Channels'
          BY <1>1, <3>1, <4>1, <4>2, StorageConstants DEF StorageInv, Channels
        <4>4. writer' = writer \/ writer' = [pc |-> "write", batch |-> Head(metricsChan)]
          BY <1>3, <3>1 DEF ReceiveMetrics
        <4> QED BY <4>2, <4>3, <4>4 DEF StorageInv, Writing
      <3>2. CASE writer' = [writer EXCEPT !.pc = "ended"] /\ UNCHANGED metricsChan
        BY <1>1, <3>2 DEF StorageInv, Channels, Writing
      <3> QED BY <1>3, <3>1, <3>2 DEF ReceiveMetrics
    <2>3. Working' /\ Deleting' /\ KnownIds' /\ TenantsKept' /\ AsSentLast'
      BY <1>1, <1>2, <2>1 DEF StorageInv, Working, Deleting, KnownIds, TenantsKept, AsSentLast
    <2> QED BY <2>2, <2>3 DEF StorageInv
  <1>4. CASE WriteMetrics
    <2> DEFINE tenant == MetricsTenant(writer.batch)
    <2>1. /\ writer.batch.sender \in Senders /\ writer.batch.ids \subseteq Ids
          /\ tenant = Tenant(writer.batch.sender)
      <3>1. writer.batch \in MetricBatches BY <1>4 DEF WriteMetrics, StorageInv, Writing
      <3>2. /\ writer.batch.sender \in Senders /\ writer.batch.ids \in SUBSET Ids
            /\ writer.batch.tenant = TenantOf[writer.batch.sender]
        BY <3>1 DEF MetricBatches
      <3> QED BY <3>2 DEF MetricsTenant, Tenant
    <2>2. PICK ids \in SUBSET writer.batch.ids :
            /\ server' = [key \in DOMAIN server \cup {<<tenant, id>> : id \in ids} |-> Stored(key)]
            /\ written' = written \cup {<<writer.batch.sender, tenant>>}
      BY <1>4 DEF WriteMetrics
    <2>3. UNCHANGED metricsChan /\ writer' = IdleWriter BY <1>4 DEF WriteMetrics
    <2>4. /\ DOMAIN server' = DOMAIN server \cup {<<tenant, id>> : id \in ids}
          /\ \A key \in DOMAIN server : server'[key] = server[key]
      BY <2>2 DEF Stored
    <2>5. KnownIds' BY <2>1, <2>4 DEF StorageInv, KnownIds
    <2>6. TenantsKept' BY <2>1, <2>2 DEF StorageInv, TenantsKept
    <2>7. Channels' /\ Writing' /\ Working'
      BY <1>1, <2>3 DEF StorageInv, Channels, Writing, Working, IdleWriter
    <2>8. Deleting' BY <1>1, <1>2, <2>4 DEF StorageInv, Deleting
    <2>9. AsSentLast' BY <1>1, <1>2, <2>4 DEF StorageInv, AsSentLast
    <2> QED BY <2>5, <2>6, <2>7, <2>8, <2>9 DEF StorageInv
  <1> QED BY <1>3, <1>4 DEF Writer

\* Every step, and every stutter, keeps the invariant.
LEMMA StorageStepKeeps == StorageInv /\ [StorageStep]_storageVars => StorageInv'
  <1> SUFFICES ASSUME StorageInv, [StorageStep]_storageVars PROVE StorageInv'
    OBVIOUS
  <1>1. CASE UNCHANGED storageVars
    BY <1>1 DEF storageVars, StorageInv, Channels, Working, Deleting, Writing, KnownIds,
                TenantsKept, AsSentLast, Key, Current
  <1>2. CASE Definer BY <1>2, DefinerKeeps
  <1>3. CASE Writer BY <1>3, WriterKeeps
  <1> QED BY <1>1, <1>2, <1>3, OthersKeep DEF StorageStep

\* The invariant holds in every behaviour of the storage manager.
LEMMA StorageInvariant == StorageSpec => []StorageInv
  BY StorageInitially, StorageStepKeeps, PTL DEF StorageSpec
-----------------------------------------------------------------------------
(* Theorems.                                                               *)

\* Whatever is sent, in whatever order the two consumers take it and whichever
\* of their calls fail: a definition none of whose calls failed when it was
\* handled last has exactly the tags it was sent with (consumeMetricDefinitions).
THEOREM DefinitionsAreAsSentLast == StorageSpec => []AsSentLast
  <1>1. StorageInv => AsSentLast BY DEF StorageInv
  <1> QED BY <1>1, StorageInvariant, PTL

\* All that is stored for one sender is stored under one tenant, whichever
\* consumer stores it (consumeMetricDefinitions, consumeMetrics).
THEOREM TenantsStayApart == StorageSpec => []OneTenantPerSender
  <1>1. StorageInv => OneTenantPerSender BY DEF StorageInv, TenantsKept, OneTenantPerSender
  <1> QED BY <1>1, StorageInvariant, PTL

\* No step takes from a definition the name of a tag that it is to have: only
\* obsolete tags are deleted (deleteTags in consumeMetricDefinitions).
THEOREM TagsInUseAreKept == StorageSpec => KeepsTagsInUse
  <1> DEFINE Kept ==
        \A key \in DOMAIN server :
            definer.rest # <<>> /\ key = Key =>
                DOMAIN server[key] \cap DOMAIN Current.tags \subseteq DOMAIN server'[key]
  <1>1. ASSUME StorageInv, StorageStep PROVE Kept
    <2> SUFFICES ASSUME definer.rest # <<>>, Key \in DOMAIN server
                 PROVE  DOMAIN server[Key] \cap DOMAIN Current.tags \subseteq DOMAIN server'[Key]
      OBVIOUS
    <2>1. CASE UNCHANGED server BY <2>1
    <2>2. CASE WriteMetrics
      <3>1. PICK ids : server' = [key \in DOMAIN server \cup
                            {<<MetricsTenant(writer.batch), id>> : id \in ids} |-> Stored(key)]
        BY <2>2 DEF WriteMetrics
      <3> QED BY <3>1 DEF Stored
    <2>3. CASE Create
      BY <2>3 DEF Create, With
    <2>4. CASE DeleteTag
      <3>1. definer.pc = "delete" BY <2>4 DEF DeleteTag
      <3>2. PICK n \in definer.obsolete :
                \/ server' = With(server, Key, [x \in DOMAIN Stored(Key) \ {n} |-> Stored(Key)[x]])
                \/ UNCHANGED server
        BY <2>4 DEF DeleteTag
      <3>3. n \notin DOMAIN Current.tags BY <1>1, <3>1 DEF StorageInv, Deleting
      <3>4. CASE server' = With(server, Key, [x \in DOMAIN server[Key] \ {n} |-> server[Key][x]])
        BY <3>3, <3>4 DEF With
      <3> QED BY <2>1, <3>2, <3>4 DEF Stored
    <2>5. CASE UpdateTags
      <3>1. CASE server' = With(server, Key, [x \in DOMAIN Current.tags \cup DOMAIN Stored(Key) |->
                    IF x \in DOMAIN Current.tags THEN Current.tags[x] ELSE Stored(Key)[x]])
        BY <3>1 DEF With
      <3> QED BY <2>1, <2>5, <3>1 DEF UpdateTags
    <2>6. StorageStep => UNCHANGED server \/ WriteMetrics \/ Create \/ DeleteTag \/ UpdateTags
      BY DEF StorageStep, StartStoringMetrics, StopStoringMetrics, SendMetrics, SendDefinitions,
             Definer, ReceiveDefinitions, LookUp, Writer, ReceiveMetrics
    <2> QED BY <1>1, <2>1, <2>2, <2>3, <2>4, <2>5, <2>6
  <1>2. StorageInv /\ [StorageStep]_storageVars => [Kept]_storageVars
    BY <1>1
  <1> QED BY <1>2, StorageInvariant, PTL DEF StorageSpec, KeepsTagsInUse
=============================================================================
