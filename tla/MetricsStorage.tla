-------------------------- MODULE MetricsStorage --------------------------
(***************************************************************************)
(* The storage manager (storage/metrics_storage.go) between the workers of *)
(* the collector manager, which fill its two bounded channels, and the     *)
(* Hawkular Metrics server.  One goroutine writes the batches of metrics.  *)
(* The other brings the definitions on the server to the tags that were    *)
(* sent: it looks a definition up and creates it, or deletes its obsolete  *)
(* tags one by one and updates the others.  No failed call is retried.     *)
(*                                                                         *)
(* A call to the server takes effect or not; that the agent is told so     *)
(* makes no difference, since it only logs the error.  A definition that   *)
(* was created meanwhile is a call without effect (a conflict).  Types and *)
(* values are left out: an ID stands for an ID and its type.               *)
(***************************************************************************)
EXTENDS Integers, Sequences, FiniteSets

CONSTANTS
    Senders,       \* workers, each collecting from one endpoint
    NoTenant,      \* the empty tenant
    TenantOf,      \* the tenant of each sender's endpoint
    GlobalTenant,  \* the tenant of the server's configuration
    DefinitionSets,\* the sequences of definitions that can be sent together
    ChanCap,       \* capacity of each channel
    MaxSends       \* bound: how often the workers send

VARIABLES
    defsChan,     \* MetricDefinitionsChannel
    metricsChan,  \* MetricsChannel
    open,         \* the channels are not closed yet
    definer,      \* the goroutine in consumeMetricDefinitions
    writer,       \* the goroutine in consumeMetrics
    server,       \* the definitions on the server: <<tenant, ID>> -> tags
    written,      \* history: <<sender, tenant>> of what was written for whom
    outcome,      \* history: what became of the last definition of <<tenant, ID>>
    sends         \* how often they have sent

storageVars == <<defsChan, metricsChan, open, definer, writer, server, written, outcome, sends>>

\* A batch knows its sender for the sake of the properties only.
Definitions == UNION {{defs[i] : i \in DOMAIN defs} : defs \in DefinitionSets}
Ids == {d.id : d \in Definitions}

\* A channel can be full.  Definitions are sent in sequences; the tags of one
\* are a function from names to values.
ASSUME StorageConstants ==
    /\ ChanCap \in Nat
    /\ \A defs \in DefinitionSets : defs \in Seq(Definitions)
    /\ \A d \in Definitions : d.tags = [n \in DOMAIN d.tags |-> d.tags[n]]

NoBatch == <<>>
IdleDefiner == [pc |-> "receive", tenant |-> NoTenant, rest |-> <<>>, obsolete |-> {}, failed |-> FALSE]
IdleWriter == [pc |-> "receive", batch |-> NoBatch]

StorageInit ==
    /\ defsChan = <<>> /\ metricsChan = <<>>
    /\ open = TRUE
    /\ definer = [IdleDefiner EXCEPT !.pc = "none"] /\ writer = [IdleWriter EXCEPT !.pc = "none"]
    /\ server = << >>
    /\ written = {}
    /\ outcome = << >>
    /\ sends = 0
-----------------------------------------------------------------------------
(* Starting, stopping, and the workers.                                    *)

StartStoringMetrics ==
    /\ definer' = IdleDefiner /\ writer' = IdleWriter
    /\ UNCHANGED <<defsChan, metricsChan, open, server, written, outcome, sends>>

StopStoringMetrics ==
    /\ open' = FALSE
    /\ UNCHANGED <<defsChan, metricsChan, definer, writer, server, written, outcome, sends>>

\* A worker sends what it collected, which may be nothing at all.
SendMetrics(s) ==
    /\ open /\ sends < MaxSends
    /\ Len(metricsChan) < ChanCap
    /\ \E ids \in {{}, Ids} :
        metricsChan' = Append(metricsChan, [sender |-> s, tenant |-> TenantOf[s], ids |-> ids])
    /\ sends' = sends + 1
    /\ UNCHANGED <<defsChan, open, definer, writer, server, written, outcome>>

\* It sends definitions for the IDs it has not sent any for yet; after the
\* collector was restarted it does so again, maybe with other tags.
SendDefinitions(s) ==
    /\ open /\ sends < MaxSends
    /\ Len(defsChan) < ChanCap
    /\ \E defs \in DefinitionSets :
        defsChan' = Append(defsChan, [sender |-> s, tenant |-> TenantOf[s], defs |-> defs])
    /\ sends' = sends + 1
    /\ UNCHANGED <<metricsChan, open, definer, writer, server, written, outcome>>
-----------------------------------------------------------------------------
(* consumeMetricDefinitions.                                               *)

\* Faulty: a batch without a tenant gets the tenant of the batch before it.
TenantKept(batch) ==
    IF batch.tenant # NoTenant THEN batch.tenant
    ELSE IF definer.tenant # NoTenant THEN definer.tenant ELSE GlobalTenant

\* The tenant of a batch is that of its first element, if it has one.
DefinitionsTenant(batch) == IF batch.tenant = NoTenant THEN GlobalTenant ELSE batch.tenant

\* A batch without definitions is skipped; a closed channel is drained first.
ReceiveDefinitions ==
    /\ definer.pc = "receive"
    /\ \/ /\ defsChan # <<>> /\ defsChan' = Tail(defsChan)
          /\ IF Head(defsChan).defs = <<>> THEN UNCHANGED <<definer, written>>
             ELSE LET tenant == DefinitionsTenant(Head(defsChan)) IN
                  /\ definer' = [IdleDefiner EXCEPT !.pc = "look", !.tenant = tenant,
                                                    !.rest = Head(defsChan).defs]
                  /\ written' = written \cup {<<Head(defsChan).sender, tenant>>}
       \/ /\ defsChan = <<>> /\ ~open /\ definer' = [definer EXCEPT !.pc = "ended"]
          /\ UNCHANGED <<defsChan, written>>
    /\ UNCHANGED <<metricsChan, open, writer, server, outcome, sends>>

Current == Head(definer.rest)
Key == <<definer.tenant, Current.id>>
Stored(key) == IF key \in DOMAIN server THEN server[key] ELSE << >>

With(f, k, v) == [x \in DOMAIN f \cup {k} |-> IF x = k THEN v ELSE f[x]]

\* Faulty: a definition one of whose calls failed is tried again.
FinishOrRetry(failed) ==
    /\ definer' = [definer EXCEPT !.rest = IF failed THEN @ ELSE Tail(@), !.failed = FALSE, !.obsolete = {},
            !.pc = IF ~failed /\ Tail(definer.rest) = <<>> THEN "receive" ELSE "look"]
    /\ outcome' = With(outcome, Key, [tags |-> Current.tags, failed |-> failed])

\* On to the next definition of the batch, or to the next batch.
Finish(failed) ==
    /\ definer' = [definer EXCEPT !.rest = Tail(@), !.failed = FALSE, !.obsolete = {},
                                  !.pc = IF Tail(definer.rest) = <<>> THEN "receive" ELSE "look"]
    /\ outcome' = With(outcome, Key, [tags |-> Current.tags, failed |-> failed])

\* An error of the lookup ends the definition, and so do equal tags.  Those of
\* the server are nil and not equal if it has none (reflect.DeepEqual).
LookUp ==
    /\ definer.pc = "look"
    /\ \/ Finish(TRUE)
       \/ /\ Key \notin DOMAIN server
          /\ definer' = [definer EXCEPT !.pc = "create"]
          /\ UNCHANGED outcome
       \/ /\ Key \in DOMAIN server /\ Current.tags # << >> /\ server[Key] = Current.tags
          /\ Finish(FALSE)
       \/ /\ Key \in DOMAIN server /\ (server[Key] # Current.tags \/ Current.tags = << >>)
          /\ definer' = [definer EXCEPT !.pc = "delete",
                            !.obsolete = DOMAIN server[Key] \ DOMAIN Current.tags]
          /\ UNCHANGED outcome
    /\ UNCHANGED <<defsChan, metricsChan, open, writer, server, written, sends>>

Create ==
    /\ definer.pc = "create"
    /\ \/ Key \notin DOMAIN server /\ server' = With(server, Key, Current.tags) /\ Finish(FALSE)
       \/ UNCHANGED server /\ Finish(TRUE)
    /\ UNCHANGED <<defsChan, metricsChan, open, writer, written, sends>>

\* Faulty: a tag with another value is deleted first, as if it were obsolete.
DeleteChangedTag ==
    /\ definer.pc = "delete" /\ \E n \in DOMAIN Stored(Key) :
        /\ n \in definer.obsolete \/ Stored(Key)[n] # Current.tags[n]
        /\ server' = With(server, Key, [x \in DOMAIN Stored(Key) \ {n} |-> Stored(Key)[x]])
        /\ definer' = [definer EXCEPT !.obsolete = @ \ {n}]
    /\ UNCHANGED <<defsChan, metricsChan, open, writer, written, outcome, sends>>

\* One of the obsolete tags is deleted, in the order Go iterates over a map.
DeleteTag ==
    /\ definer.pc = "delete" /\ \E n \in definer.obsolete :
        \/ /\ server' = With(server, Key, [x \in DOMAIN Stored(Key) \ {n} |-> Stored(Key)[x]])
           /\ definer' = [definer EXCEPT !.obsolete = @ \ {n}]
        \/ /\ UNCHANGED server
           /\ definer' = [definer EXCEPT !.obsolete = @ \ {n}, !.failed = TRUE]
    /\ UNCHANGED <<defsChan, metricsChan, open, writer, written, outcome, sends>>

\* Faulty: a tag the definition has already is not updated.
UpdateNewTagsOnly ==
    /\ definer.pc = "delete" /\ definer.obsolete = {}
    /\ server' = With(server, Key, [x \in DOMAIN Current.tags \cup DOMAIN Stored(Key) |->
            IF x \in DOMAIN Stored(Key) THEN Stored(Key)[x] ELSE Current.tags[x]])
    /\ Finish(definer.failed)
    /\ UNCHANGED <<defsChan, metricsChan, open, writer, written, sends>>

UpdateTags ==
    /\ definer.pc = "delete" /\ definer.obsolete = {}
    /\ \/ /\ server' = With(server, Key, [x \in DOMAIN Current.tags \cup DOMAIN Stored(Key) |->
                IF x \in DOMAIN Current.tags THEN Current.tags[x] ELSE Stored(Key)[x]])
          /\ Finish(definer.failed)
       \/ UNCHANGED server /\ Finish(TRUE)
    /\ UNCHANGED <<defsChan, metricsChan, open, writer, written, sends>>
-----------------------------------------------------------------------------
(* consumeMetrics.                                                         *)

MetricsTenant(batch) == IF batch.tenant = NoTenant THEN GlobalTenant ELSE batch.tenant

ReceiveMetrics ==
    /\ writer.pc = "receive"
    /\ \/ /\ metricsChan # <<>> /\ metricsChan' = Tail(metricsChan)
          /\ IF Head(metricsChan).ids = {} THEN UNCHANGED writer
             ELSE writer' = [pc |-> "write", batch |-> Head(metricsChan)]
       \/ /\ metricsChan = <<>> /\ ~open /\ writer' = [writer EXCEPT !.pc = "ended"]
          /\ UNCHANGED metricsChan
    /\ UNCHANGED <<defsChan, open, definer, server, written, outcome, sends>>

\* The client writes the metrics of each type with a call of its own: some of
\* them may arrive and others not.  The server registers an ID it did not know,
\* without tags, with the first data it gets for it.
WriteMetrics ==
    /\ writer.pc = "write"
    /\ LET tenant == MetricsTenant(writer.batch) IN
       \E ids \in SUBSET writer.batch.ids :
        /\ server' = [key \in DOMAIN server \cup {<<tenant, id>> : id \in ids} |-> Stored(key)]
        /\ written' = written \cup {<<writer.batch.sender, tenant>>}
    /\ writer' = IdleWriter
    /\ UNCHANGED <<defsChan, metricsChan, open, definer, outcome, sends>>

Definer == ReceiveDefinitions \/ LookUp \/ Create \/ DeleteTag \/ UpdateTags
Writer == ReceiveMetrics \/ WriteMetrics
-----------------------------------------------------------------------------
(* Properties.                                                             *)

\* What a definition ends up with does not depend on the tags it had before
\* nor on calls that failed earlier: if no call failed when it was sent last,
\* it has exactly the tags it was sent with (consumeMetricDefinitions).
AsSentLast ==
    \A key \in DOMAIN outcome :
        ~outcome[key].failed /\ ~(definer.rest # <<>> /\ key = Key) =>
            key \in DOMAIN server /\ server[key] = outcome[key].tags

\* Between two calls a definition never lacks a tag name that it had and that
\* it is to have: only obsolete tags are deleted, the others are overwritten.
KeepsTagsInUse ==
    [][\A key \in DOMAIN server :
        definer.rest # <<>> /\ key = Key =>
            DOMAIN server[key] \cap DOMAIN Current.tags \subseteq DOMAIN server'[key]]_storageVars

\* The two consumers, each choosing a tenant per batch, store the definitions
\* and the data of a sender under one tenant, whatever they handled before.
OneTenantPerSender ==
    \A x, y \in written : x[1] = y[1] => x[2] = y[2]
=============================================================================
